---- MODULE Spec2Model ----
(***************************************************************************)
(* A model of the cozo database handle (src/src/runtime/db.rs): the        *)
(* running-query registry with its poison flags and timeout threads, the   *)
(* view-existence protocol of run_query, write transactions with their     *)
(* TxId counter and snapshots, the time-travel scan entities_at and the    *)
(* output stage of run_query and the meta key-value calls; of the script   *)
(* parser parse_query (src/src/parse/script/query.rs); of                  *)
(* negation_normal_form, disjunctive_normal_form and normalize             *)
(* (src/src/query/logical.rs); and of the passes run_query calls on a      *)
(* program: stratify, magic_sets_rewrite and the semi-naive evaluation.    *)
(***************************************************************************)
EXTENDS Integers, Sequences, FiniteSets, TLC

(* ------------------------------ bounds --------------------------------- *)

\* number of run_query calls that get as far as allocating a poison flag
MaxQueries == 2
\* the evaluator consults the poison flag every BatchSize tuples
BatchSize == 2

\* the sessions (one thread each) made by new_session from one handle: two run
\* queries, the third issues sys ops
QuerySessions == {"q1", "q2"}
SysSessions == {"sys"}
Sessions == QuerySessions \cup SysSessions
ViewNames == {"mylist"}
ViewOps == {"Create", "Rederive", "Put", "Retract"}

\* out_opts.as_view: None, or Some((meta, op))
NoView == [op |-> "None", name |-> ""]
ViewOpts == {NoView} \cup [op : ViewOps, name : ViewNames]

VARIABLES
    \* ---- shared through the handle (Arc) ----
    queries_count,      \* Db.queries_count: AtomicU64
    running_queries,    \* Db.running_queries: id -> RunningQueryHandle
    poison,             \* the AtomicBool behind every Poison allocated so far
    timers,             \* poison cells whose timeout thread is still asleep
    views,              \* names of the views stored in view_db
    \* ---- one thread per session ----
    pc,                 \* position of the session's thread
    as_view,            \* out_opts.as_view of the program run_query is running
    qid,                \* local `id` of run_query
    cell,               \* local `poison` of run_query
    sinceCheck,         \* tuples the evaluator processed since its last check
    pending,            \* the value run_query is about to return
    result              \* what the last call of the session returned

qvars == <<queries_count, running_queries, poison, timers, views,
           pc, as_view, qid, cell, sinceCheck, pending, result>>

VARIABLES
    last_tx_id,         \* Db.last_tx_id: AtomicU64
    store,              \* the triple store: the TxIds whose writes are committed
    tpc,                \* position of the session's thread in a transaction
    tx,                 \* the session's SessionTx
    commit_calls,       \* commit_tx calls made by the session's current call
    seen,               \* what the reads of the session's transaction returned
    tresult             \* what the session's last call returned

txvars == <<last_tx_id, store, tpc, tx, commit_calls, seen, tresult>>

VARIABLES
    eav,                \* the EAV index of the triple store: its entries
    ea_pc,              \* position of the thread that runs entities_at
    ea_vld,             \* entities_at: vld
    current,            \* entities_at: current, the key last sought
    it,                 \* entities_at: the entry the iterator stands on
    collected,          \* entities_at: collected, entity id to JSON object
    ea_result           \* entities_at: the JSON array returned

eavars == <<eav, ea_pc, ea_vld, current, it, collected, ea_result>>

VARIABLES
    o_pc,               \* position in the output stage of run_query
    out_opts,           \* input_program.out_opts: sorters, limit, offset
    derived,            \* the tuples of the entry relation of the program
    num_to_take,        \* the row limit run_query gave the evaluator
    eval_result,        \* `result`: the tuples the evaluator returned
    sorted_iter         \* the rows handed to execute_view or to the pull

ovars == <<o_pc, out_opts, derived, num_to_take, eval_result, sorted_iter>>

VARIABLES
    p_src,              \* parse_query: src, the pairs of the script
    p_pos,              \* parse_query: the pairs the loop has consumed
    progs,              \* parse_query: progs, name -> InputRulesOrAlgo
    p_opts,             \* parse_query: out_opts
    p_result            \* what parse_query returned, or that it panicked

pvars == <<p_src, p_pos, progs, p_opts, p_result>>

VARIABLES
    n_pc,               \* "input", then "once" and "twice" after the calls
    atom,               \* the InputAtom negation_normal_form is called on
    nnf_once,           \* what negation_normal_form returned for atom
    nnf_twice           \* what it returned for its own output

nvars == <<n_pc, atom, nnf_once, nnf_twice>>

VARIABLES
    \* ---- stratify ----
    st_pc,              \* position inside stratify
    st_edges,           \* the dependencies between the rules of the program
    strata,             \* the strata made so far, first to be evaluated first
    st_result           \* what stratify returned
svars == <<st_pc, st_edges, strata, st_result>>

VARIABLES
    \* ---- the semi-naive evaluator ----
    ev_pc,              \* position inside the evaluation
    edb,                \* the pairs (x, y) of the triples [x :parent/child y]
    ev_input,           \* the stratified program handed to magic_sets_rewrite
    ev_magic,           \* the program was rewritten
    ev_prog,            \* the program under evaluation
    ev_stratum,         \* index of the stratum under evaluation
    ev_first,           \* no iteration of this stratum has run yet
    known,              \* known_p of every intensional predicate p
    new                 \* new_p of every intensional predicate p
evars == <<ev_pc, edb, ev_input, ev_magic, ev_prog, ev_stratum, ev_first, known, new>>

VARIABLES
    \* ---- disjunctive_normal_form ----
    dnf                 \* what disjunctive_normal_form returned for atom
dvars == <<dnf>>

VARIABLES
    \* ---- normalize ----
    nz_gen,             \* TempSymbGen: the number of symbols it has made
    nz_atom,            \* the atom normalize is called on
    nz_result           \* what normalize returned
zvars == <<nz_gen, nz_atom, nz_result>>

VARIABLES
    \* ---- meta kv ----
    meta_kv,            \* the Guard-prefixed keys of view_db under ViewRelId::SYSTEM
    meta_calls,         \* the put_meta_kv and remove_meta_kv calls made, oldest first
    meta_out            \* what the last get_meta_kv or meta_range_scan gave
mvars == <<meta_kv, meta_calls, meta_out>>

vars == <<qvars, txvars, eavars, ovars, pvars, nvars, svars, evars, dvars, zvars, mvars>>

(* ------------------------------ results -------------------------------- *)

NoResult == [tag |-> "None", kind |-> "", msg |-> "", rows |-> {}]
OkRows == [tag |-> "Ok", kind |-> "", msg |-> "rows", rows |-> {}]
OkView == [tag |-> "Ok", kind |-> "", msg |-> "view OK", rows |-> {}]
Status(s) == [tag |-> "Ok", kind |-> "", msg |-> s, rows |-> {}]
Listing(ids) == [tag |-> "Ok", kind |-> "", msg |-> "list", rows |-> ids]

\* bail!(..), ensure!(..), miette!(..): an ad-hoc report that carries only a message
AdHoc(m) == [tag |-> "Err", kind |-> "adhoc", msg |-> m, rows |-> {}]

\* a check that never looks at the flag
PoisonCheck_Blind(flag) == NoResult

\* Poison::check: Err(bail!("killed")) when the flag is set, Ok(()) otherwise
PoisonCheck(flag) == IF flag THEN AdHoc("killed") ELSE NoResult

(* ------------------------- running queries ----------------------------- *)

\* a counter read that gives every caller the same value
FetchAddOld_Same(c) == 0

\* AtomicU64::fetch_add(1): the value returned
FetchAddOld(c) == c

\* an increment that is lost
FetchAddNew_Lost(c) == c

\* AtomicU64::fetch_add(1): the value left behind
FetchAddNew(c) == c + 1

\* BTreeMap::insert(id, handle): a later insert under the same key replaces
MapInsert(m, k, v) == (k :> v) @@ m
\* BTreeMap::remove(id)
MapRemove(m, k) == [x \in DOMAIN m \ {k} |-> m[x]]

\* AtomicBool::store(true) on one poison cell
PoisonStore(p, c) == [p EXCEPT ![c] = TRUE]

InitQuery ==
    /\ queries_count = 0
    /\ running_queries = << >>
    /\ poison = << >>
    /\ timers = {}
    /\ views = {}
    /\ pc = [s \in Sessions |-> "idle"]
    /\ as_view = [s \in Sessions |-> NoView]
    /\ qid = [s \in Sessions |-> 0]
    /\ cell = [s \in Sessions |-> 0]
    /\ sinceCheck = [s \in Sessions |-> 0]
    /\ pending = [s \in Sessions |-> NoResult]
    /\ result = [s \in Sessions |-> NoResult]

\* run_query returns `r` before it has registered the query: no guard exists yet
ReturnEarly(s, r) ==
    /\ pc' = [pc EXCEPT ![s] = "idle"]
    /\ result' = [result EXCEPT ![s] = r]
    /\ as_view' = [as_view EXCEPT ![s] = NoView]

\* run_query leaves the evaluation or the output stage with `r`: the guard is
\* still to be dropped
Unwind(s, r) ==
    /\ pc' = [pc EXCEPT ![s] = "drop"]
    /\ pending' = [pending EXCEPT ![s] = r]

\* tx.view_exists(name)
ViewExists(name) == name \in views

\* a check that asks every op but Create for an existing view
ViewCheckError_RederiveNeedsView(v) ==
    IF v.op = "None" THEN NoResult
    ELSE IF v.op = "Create"
         THEN IF ~ViewExists(v.name) THEN NoResult
              ELSE AdHoc("view exists but is required not to be")
    ELSE IF ViewExists(v.name) THEN NoResult
         ELSE AdHoc("view does not exist but is required to be")

\* run_query, lines 439-453: the ensure! that applies to this view op, if any
ViewCheckError(v) ==
    IF v.op = "None" THEN NoResult
    ELSE IF v.op = "Create"
         THEN IF ~ViewExists(v.name) THEN NoResult
              ELSE AdHoc("view exists but is required not to be")
    ELSE IF v.op # "Rederive"
         THEN IF ViewExists(v.name) THEN NoResult
              ELSE AdHoc("view does not exist but is required to be")
    ELSE NoResult

\* run_query, lines 437-438: transact(), and parse_query fails
RunQueryParseFail(s) ==
    /\ pc[s] = "idle"
    /\ ReturnEarly(s, AdHoc("parse"))
    /\ UNCHANGED <<queries_count, running_queries, poison, timers, views,
                   qid, cell, sinceCheck, pending>>

\* run_query, lines 437-453: transact(), parse_query gives a program with
\* out_opts.as_view = v, and the existence of its view is checked
RunQueryStart(s, v) ==
    /\ pc[s] = "idle"
    /\ IF ViewCheckError(v) = NoResult
       THEN /\ pc' = [pc EXCEPT ![s] = "compile"]
            /\ as_view' = [as_view EXCEPT ![s] = v]
            /\ result' = [result EXCEPT ![s] = NoResult]
       ELSE ReturnEarly(s, ViewCheckError(v))
    /\ UNCHANGED <<queries_count, running_queries, poison, timers, views,
                   qid, cell, sinceCheck, pending>>

\* run_query, lines 454-460: normalisation, stratification, magic sets or
\* compilation fails
RunQueryCompileFail(s) ==
    /\ pc[s] = "compile"
    /\ ReturnEarly(s, AdHoc("compile"))
    /\ UNCHANGED <<queries_count, running_queries, poison, timers, views,
                   qid, cell, sinceCheck, pending>>

\* Poison::set_timeout: spawn a thread that sleeps, then stores true
SetTimeout(c) == timers \cup {c}

\* run_query, lines 454-465: compilation succeeds, Poison::default() and, when
\* out_opts.timeout is set (has_timeout), set_timeout
RunQueryNewPoison(s, has_timeout) ==
    /\ pc[s] = "compile"
    /\ Len(poison) < MaxQueries
    /\ LET c == Len(poison) + 1 IN
        /\ poison' = Append(poison, FALSE)
        /\ cell' = [cell EXCEPT ![s] = c]
        /\ timers' = IF has_timeout THEN SetTimeout(c) ELSE timers
    /\ pc' = [pc EXCEPT ![s] = "fetch"]
    /\ UNCHANGED <<queries_count, running_queries, views, as_view, qid,
                   sinceCheck, pending, result>>

\* run_query, line 466: id = queries_count.fetch_add(1)
RunQueryFetchId(s) ==
    /\ pc[s] = "fetch"
    /\ qid' = [qid EXCEPT ![s] = FetchAddOld(queries_count)]
    /\ queries_count' = FetchAddNew(queries_count)
    /\ pc' = [pc EXCEPT ![s] = "insert"]
    /\ UNCHANGED <<running_queries, poison, timers, views, as_view, cell,
                   sinceCheck, pending, result>>

\* run_query, lines 467-475: insert the handle, arm the cleanup guard
RunQueryRegister(s) ==
    /\ pc[s] = "insert"
    /\ running_queries' = MapInsert(running_queries, qid[s], [poison |-> cell[s]])
    /\ pc' = [pc EXCEPT ![s] = "iter"]
    /\ sinceCheck' = [sinceCheck EXCEPT ![s] = 0]
    /\ UNCHANGED <<queries_count, poison, timers, views, as_view, qid, cell,
                   pending, result>>

\* the sleeping thread of set_timeout wakes up: pill.store(true)
TimeoutFire(c) ==
    /\ c \in timers
    /\ poison' = PoisonStore(poison, c)
    /\ timers' = timers \ {c}
    /\ UNCHANGED <<queries_count, running_queries, views, pc, as_view, qid, cell,
                   sinceCheck, pending, result>>

(* ----------------------------- evaluator ------------------------------- *)

\* the flag as the evaluator of session s reads it
Poisoned(s) == poison[cell[s]]

\* stratified_magic_evaluate, start of an iteration of the outer fixpoint:
\* poison.check()?
EvalIter(s) ==
    /\ pc[s] = "iter"
    /\ IF PoisonCheck(Poisoned(s)) = NoResult
       THEN /\ pc' = [pc EXCEPT ![s] = "eval"]
            /\ UNCHANGED pending
       ELSE Unwind(s, PoisonCheck(Poisoned(s)))
    /\ UNCHANGED <<queries_count, running_queries, poison, timers, views,
                   as_view, qid, cell, sinceCheck, result>>

\* one more tuple; every BatchSize tuples poison.check()?
EvalTuple(s) ==
    /\ pc[s] = "eval"
    /\ IF sinceCheck[s] + 1 < BatchSize
       THEN /\ sinceCheck' = [sinceCheck EXCEPT ![s] = @ + 1]
            /\ UNCHANGED <<pc, pending>>
       ELSE /\ sinceCheck' = [sinceCheck EXCEPT ![s] = 0]
            /\ IF PoisonCheck(Poisoned(s)) = NoResult
               THEN UNCHANGED <<pc, pending>>
               ELSE Unwind(s, PoisonCheck(Poisoned(s)))
    /\ UNCHANGED <<queries_count, running_queries, poison, timers, views,
                   as_view, qid, cell, result>>

\* the iteration produced new tuples: another iteration follows
EvalNextIter(s) ==
    /\ pc[s] = "eval"
    /\ pc' = [pc EXCEPT ![s] = "iter"]
    /\ UNCHANGED <<queries_count, running_queries, poison, timers, views,
                   as_view, qid, cell, sinceCheck, pending, result>>

\* every new_p is empty: the evaluation is complete
EvalFinish(s) ==
    /\ pc[s] = "eval"
    /\ pc' = [pc EXCEPT ![s] = "output"]
    /\ UNCHANGED <<queries_count, running_queries, poison, timers, views,
                   as_view, qid, cell, sinceCheck, pending, result>>

\* the evaluation fails with an error of its own
EvalFail(s) ==
    /\ pc[s] = "eval"
    /\ Unwind(s, AdHoc("eval"))
    /\ UNCHANGED <<queries_count, running_queries, poison, timers, views,
                   as_view, qid, cell, sinceCheck, result>>

(* ------------------------------- output -------------------------------- *)

\* sort_and_collect, or run_pull_on_query_results, fails
OutputFail(s) ==
    /\ pc[s] = "output"
    /\ Unwind(s, AdHoc("output"))
    /\ UNCHANGED <<queries_count, running_queries, poison, timers, views,
                   as_view, qid, cell, sinceCheck, result>>

\* no view option: the rows are pulled and returned
OutputRows(s) ==
    /\ pc[s] = "output"
    /\ as_view[s] = NoView
    /\ Unwind(s, OkRows)
    /\ UNCHANGED <<queries_count, running_queries, poison, timers, views,
                   as_view, qid, cell, sinceCheck, result>>

\* tx.execute_view(rows, op, meta), one write transaction on the view store:
\* what it returns
ExecuteViewResult(v) ==
    IF v.op = "Create"
    THEN IF v.name \in views THEN AdHoc("view exists") ELSE OkView
    ELSE IF v.op = "Rederive" THEN OkView
    ELSE IF v.name \in views THEN OkView ELSE AdHoc("view not found")

\* ... and the views it leaves
ExecuteViewStore(v) ==
    IF ExecuteViewResult(v) = OkView /\ v.op \in {"Create", "Rederive"}
    THEN views \cup {v.name}
    ELSE views

\* an execute_view whose error is dropped
OutputView_IgnoreError(s) ==
    /\ pc[s] = "output"
    /\ as_view[s] # NoView
    /\ views' = ExecuteViewStore(as_view[s])
    /\ Unwind(s, OkView)
    /\ UNCHANGED <<queries_count, running_queries, poison, timers,
                   as_view, qid, cell, sinceCheck, result>>

\* run_query, lines 504-506 and 514-516: tx.execute_view(..)?, Ok("view": "OK")
OutputView(s) ==
    /\ pc[s] = "output"
    /\ as_view[s] # NoView
    /\ views' = ExecuteViewStore(as_view[s])
    /\ Unwind(s, ExecuteViewResult(as_view[s]))
    /\ UNCHANGED <<queries_count, running_queries, poison, timers,
                   as_view, qid, cell, sinceCheck, result>>

\* a guard that poisons the handle and leaves it registered
CleanupRegistry_Keep(id) == running_queries

\* RunningQueryCleanup::drop, what it leaves in the registry
CleanupRegistry(id) == MapRemove(running_queries, id)

\* a guard that poisons every flag
CleanupPoison_Every(id) == [c \in DOMAIN poison |-> TRUE]

\* RunningQueryCleanup::drop, what it leaves in the poison flags
CleanupPoison(id) ==
    IF id \in DOMAIN running_queries
    THEN PoisonStore(poison, running_queries[id].poison)
    ELSE poison

\* run_query returns: _guard is dropped, then the caller has the result
RunQueryReturn(s) ==
    /\ pc[s] = "drop"
    /\ running_queries' = CleanupRegistry(qid[s])
    /\ poison' = CleanupPoison(qid[s])
    /\ pc' = [pc EXCEPT ![s] = "idle"]
    /\ result' = [result EXCEPT ![s] = pending[s]]
    /\ pending' = [pending EXCEPT ![s] = NoResult]
    /\ as_view' = [as_view EXCEPT ![s] = NoView]
    /\ sinceCheck' = [sinceCheck EXCEPT ![s] = 0]
    /\ qid' = [qid EXCEPT ![s] = 0]
    /\ cell' = [cell EXCEPT ![s] = 0]
    /\ UNCHANGED <<queries_count, timers, views>>

(* ------------------------------- sys ops ------------------------------- *)

\* run_sys_op, SysOp::KillRunning(id): the status returned
KillStatus(id) ==
    IF id \in DOMAIN running_queries THEN Status("KILLING") ELSE Status("NOT_FOUND")

\* a kill that poisons every query registered
KillPoison_All(id) ==
    IF id \in DOMAIN running_queries
    THEN [c \in DOMAIN poison |->
            poison[c] \/ \E i \in DOMAIN running_queries : running_queries[i].poison = c]
    ELSE poison

\* run_sys_op, SysOp::KillRunning(id): the poison flags it leaves
KillPoison(id) ==
    IF id \in DOMAIN running_queries
    THEN PoisonStore(poison, running_queries[id].poison)
    ELSE poison

KillRunning(s, id) ==
    /\ pc[s] = "idle"
    /\ poison' = KillPoison(id)
    /\ result' = [result EXCEPT ![s] = KillStatus(id)]
    /\ UNCHANGED <<queries_count, running_queries, timers, views, pc, as_view,
                   qid, cell, sinceCheck, pending>>

\* list_running: the ids of the rows
ListRunning(s) ==
    /\ pc[s] = "idle"
    /\ result' = [result EXCEPT ![s] = Listing(DOMAIN running_queries)]
    /\ UNCHANGED <<queries_count, running_queries, poison, timers, views, pc,
                   as_view, qid, cell, sinceCheck, pending>>

\* run_sys_op, SysOp::RemoveRelations([name]): remove_view(name)
RemoveRelations(s, name) ==
    /\ pc[s] = "idle"
    /\ views' = views \ {name}
    /\ result' = [result EXCEPT ![s] =
                    IF name \in views THEN Status("OK") ELSE AdHoc("view not found")]
    /\ UNCHANGED <<queries_count, running_queries, poison, timers, pc, as_view,
                   qid, cell, sinceCheck, pending>>

(* ---------------------------- transactions ----------------------------- *)

\* number of write transactions started
MaxTx == 3

TxSessions == {"t1", "t2"}

\* no SessionTx
NoTx == [open |-> FALSE, snapshot |-> FALSE, snap |-> {}, written |-> FALSE, w_tx_id |-> 0]

NotRead == [read |-> FALSE, val |-> {}]

TxNone == [tag |-> "None", msg |-> "", tx_id |-> 0]
TxOk(id) == [tag |-> "Ok", msg |-> "", tx_id |-> id]
TxErr(m) == [tag |-> "Err", msg |-> m, tx_id |-> 0]

InitTx ==
    /\ last_tx_id = 0
    /\ store = {}
    /\ tpc = [s \in TxSessions |-> "idle"]
    /\ tx = [s \in TxSessions |-> NoTx]
    /\ commit_calls = [s \in TxSessions |-> 0]
    /\ seen = [s \in TxSessions |-> NotRead]
    /\ tresult = [s \in TxSessions |-> TxNone]

\* a transaction that reads the latest committed state at every read
SetSnapshot_Off == FALSE

\* transact, transact_write: self.db.transact().set_snapshot(true)
SetSnapshot == TRUE

\* self.db.transact().set_snapshot(..).start(), with w_tx_id as given
StartTx(w) ==
    [open |-> TRUE, snapshot |-> SetSnapshot,
     snap |-> IF SetSnapshot THEN store ELSE {}, written |-> FALSE, w_tx_id |-> w]

\* the writes in the buffer of a transaction: they carry its TxId
Buffer(t) == IF t.written THEN {t.w_tx_id} ELSE {}

\* what a read through the SessionTx of session s returns: the snapshot, or
\* without one the committed state, and the transaction's own writes
Visible(s) ==
    (IF tx[s].snapshot THEN tx[s].snap ELSE store) \cup Buffer(tx[s])

\* a call returns `r`: its SessionTx, if any, is dropped
TxReturn(s, r) ==
    /\ tpc' = [tpc EXCEPT ![s] = "idle"]
    /\ tx' = [tx EXCEPT ![s] = NoTx]
    /\ seen' = [seen EXCEPT ![s] = NotRead]
    /\ tresult' = [tresult EXCEPT ![s] = r]

\* transact_attributes, line 255: AttrTxItem::parse_request fails
AttrsParseFail(s) ==
    /\ tpc[s] = "idle"
    /\ TxReturn(s, TxErr("parse"))
    /\ commit_calls' = [commit_calls EXCEPT ![s] = 0]
    /\ UNCHANGED <<last_tx_id, store>>

\* transact_write, lines 182-183: last_tx_id.fetch_add(1), cur_tx_id = old + 1
ReserveTxId(s) ==
    /\ tpc[s] = "idle"
    /\ last_tx_id < MaxTx
    /\ last_tx_id' = FetchAddNew(last_tx_id)
    /\ tx' = [tx EXCEPT ![s] = [NoTx EXCEPT !.w_tx_id = FetchAddOld(last_tx_id) + 1]]
    /\ tpc' = [tpc EXCEPT ![s] = "start"]
    /\ commit_calls' = [commit_calls EXCEPT ![s] = 0]
    /\ tresult' = [tresult EXCEPT ![s] = TxNone]
    /\ UNCHANGED <<store, seen>>

\* transact_write, lines 185-200: the SessionTx is started
StartWrite(s) ==
    /\ tpc[s] = "start"
    /\ tx' = [tx EXCEPT ![s] = StartTx(tx[s].w_tx_id)]
    /\ tpc' = [tpc EXCEPT ![s] = "apply"]
    /\ UNCHANGED <<last_tx_id, store, commit_calls, seen, tresult>>

\* transact, lines 163-180: a SessionTx with w_tx_id: None
StartRead(s) ==
    /\ tpc[s] = "idle"
    /\ tx' = [tx EXCEPT ![s] = StartTx(0)]
    /\ tpc' = [tpc EXCEPT ![s] = "reading"]
    /\ tresult' = [tresult EXCEPT ![s] = TxNone]
    /\ commit_calls' = [commit_calls EXCEPT ![s] = 0]
    /\ UNCHANGED <<last_tx_id, store, seen>>

\* a read through the SessionTx
TxRead(s) ==
    /\ tx[s].open
    /\ seen' = [seen EXCEPT ![s] = [read |-> TRUE, val |-> Visible(s)]]
    /\ UNCHANGED <<last_tx_id, store, tpc, tx, commit_calls, tresult>>

\* the reading call returns
EndRead(s) ==
    /\ tpc[s] = "reading"
    /\ TxReturn(s, TxOk(0))
    /\ UNCHANGED <<last_tx_id, store, commit_calls>>

\* transact_triples, lines 237-239, transact_attributes, line 258:
\* parse_tx_requests, tx_triples or tx_attrs fails
ApplyFail(s) ==
    /\ tpc[s] = "apply"
    /\ TxReturn(s, TxErr("apply"))
    /\ UNCHANGED <<last_tx_id, store, commit_calls>>

\* tx_triples, tx_attrs: the writes go to the buffer of the KV transaction
ApplyOk(s) ==
    /\ tpc[s] = "apply"
    /\ tx' = [tx EXCEPT ![s].written = TRUE]
    /\ tpc' = [tpc EXCEPT ![s] = "commit"]
    /\ UNCHANGED <<last_tx_id, store, commit_calls, seen, tresult>>

\* commit_tx succeeds: the buffer is persisted atomically
CommitOk(s) ==
    /\ tpc[s] = "commit"
    /\ store' = store \cup Buffer(tx[s])
    /\ commit_calls' = [commit_calls EXCEPT ![s] = @ + 1]
    /\ TxReturn(s, TxOk(tx[s].w_tx_id))
    /\ UNCHANGED last_tx_id

\* a failed commit that is tried again
CommitFail_Retry(s) ==
    /\ tpc[s] = "commit"
    /\ commit_calls[s] < 2
    /\ commit_calls' = [commit_calls EXCEPT ![s] = @ + 1]
    /\ UNCHANGED <<last_tx_id, store, tpc, tx, seen, tresult>>

\* transact_triples, line 244, transact_attributes, line 263: commit_tx fails
\* with a conflict, `?` returns the error
CommitFail(s) ==
    /\ tpc[s] = "commit"
    /\ commit_calls' = [commit_calls EXCEPT ![s] = @ + 1]
    /\ TxReturn(s, TxErr("conflict"))
    /\ UNCHANGED <<last_tx_id, store>>

\* the steps below leave the running queries alone
TxOnly == UNCHANGED <<qvars, eavars, ovars, pvars, nvars, svars, evars, dvars, zvars, mvars>>

NextTx ==
    \/ \E s \in TxSessions : AttrsParseFail(s) /\ TxOnly
    \/ \E s \in TxSessions : ReserveTxId(s) /\ TxOnly
    \/ \E s \in TxSessions : StartWrite(s) /\ TxOnly
    \/ \E s \in TxSessions : StartRead(s) /\ TxOnly
    \/ \E s \in TxSessions : TxRead(s) /\ TxOnly
    \/ \E s \in TxSessions : EndRead(s) /\ TxOnly
    \/ \E s \in TxSessions : ApplyFail(s) /\ TxOnly
    \/ \E s \in TxSessions : ApplyOk(s) /\ TxOnly
    \/ \E s \in TxSessions : CommitOk(s) /\ TxOnly
    \/ \E s \in TxSessions : CommitFail(s) /\ TxOnly

(* ----------------------------- entities_at ----------------------------- *)

\* number of entries in the EAV index
MaxFacts == 3

\* Validity::MIN and Validity::MAX, and the validities of the stored facts and
\* of the reads between them
VldMin == 0
VldMax == 3000
StoredVlds == {VldMin, 1000, 2000}
ReadVlds == {500, 1500, 2500}

\* DataValue::Null sorts before every value, DataValue::Guard stands in the key
\* of a cardinality-one attribute
ValNull == 0
ValGuard == 9
Values == {1, 2}

\* EntityId::MIN_PERM, AttrId::MIN_PERM as the least ids of the model
MinPermEntity == 1
MinPermAttr == 1
Entities == {1, 2}

\* the attribute catalog: 1 has cardinality one, 2 has cardinality many, 3 was
\* retracted, so that attr_by_id gives None
AttrOne == 1
AttrMany == 2
AttrGone == 3
AttrById(a) ==
    [found |-> a \in {AttrOne, AttrMany}, many |-> a = AttrMany,
     name |-> IF a = AttrMany THEN "many" ELSE "one"]

\* the entries the index can hold: the key (e, a, value if many, vld) and the
\* payload (op, value if one)
OneFacts ==
    [e : Entities, a : {AttrOne}, v : {ValGuard}, vld : StoredVlds,
     op : {"assert", "retract"}, val : Values]
ManyFacts ==
    [e : Entities, a : {AttrMany}, v : Values, vld : StoredVlds,
     op : {"assert", "retract"}, val : {ValNull}]
GoneFacts ==
    [e : Entities, a : {AttrGone}, v : {ValGuard}, vld : {1000},
     op : {"assert"}, val : {1}]
Facts == OneFacts \cup ManyFacts \cup GoneFacts

KeyOf(f) == [e |-> f.e, a |-> f.a, v |-> f.v, vld |-> f.vld]

\* rusty_cmp on EAV keys: entity, attribute, value, then validity reversed
KeyLess(k1, k2) ==
    \/ k1.e < k2.e
    \/ k1.e = k2.e /\ k1.a < k2.a
    \/ k1.e = k2.e /\ k1.a = k2.a /\ k1.v < k2.v
    \/ k1.e = k2.e /\ k1.a = k2.a /\ k1.v = k2.v /\ k1.vld > k2.vld

NoEntry == [e |-> 0, a |-> 0, v |-> 0, vld |-> 0, op |-> "none", val |-> 0]

\* it.seek(key): the first entry whose key is not less than `key`
Seek(key) ==
    LET after == {f \in eav : ~KeyLess(KeyOf(f), key)} IN
    IF after = {} THEN NoEntry
    ELSE CHOOSE f \in after : \A g \in after : g = f \/ KeyLess(KeyOf(f), KeyOf(g))

\* encoded_entity_amend_validity(vld)
AmendValidity(key, vld) == [key EXCEPT !.vld = vld]

\* encoded_entity_amend_validity_to_inf_past()
AmendValidityToInfPast(key) == AmendValidity(key, VldMin)

InitScan ==
    /\ eav = {}
    /\ ea_pc = "idle"
    /\ ea_vld = VldMin
    /\ current = KeyOf(NoEntry)
    /\ it = NoEntry
    /\ collected = << >>
    /\ ea_result = << >>

\* a committed write of a triple puts one entry into the index
PutFact(f) ==
    /\ ea_pc = "idle"
    /\ Cardinality(eav) < MaxFacts
    /\ \A g \in eav : KeyOf(g) # KeyOf(f)
    /\ eav' = eav \cup {f}
    /\ UNCHANGED <<ea_pc, ea_vld, current, it, collected, ea_result>>

\* entities_at, lines 289-313: the first seek
EntitiesAtBegin(vld) ==
    /\ ea_pc = "idle"
    /\ ea_vld' = vld
    /\ LET first == [e |-> MinPermEntity, a |-> MinPermAttr, v |-> ValNull,
                     vld |-> VldMax] IN
        /\ current' = first
        /\ it' = Seek(first)
    /\ collected' = << >>
    /\ ea_pc' = "loop"
    /\ UNCHANGED <<eav, ea_result>>

\* a scan that yields a retraction as if it were an assertion
Yields_IgnoreOp(f) == AttrById(f.a).found

\* entities_at, lines 327-338: the entry is an assertion of a live attribute
Yields(f) == f.op # "retract" /\ AttrById(f.a).found

\* entities_at, lines 340-344: the value comes from the payload or from the key
ValueOf(f) == IF AttrById(f.a).many THEN f.v ELSE f.val

\* entities_at, lines 345-356: the entry goes into the object of its entity, a
\* cardinality-many value at the end of the array of its attribute
Collect(c, f) ==
    LET attr == AttrById(f.a)
        obj == ("_id" :> f.e) @@ (IF f.e \in DOMAIN c THEN c[f.e] ELSE << >>)
        arr == IF attr.name \in DOMAIN obj THEN obj[attr.name] ELSE << >>
        entry == IF attr.many THEN Append(arr, ValueOf(f)) ELSE ValueOf(f)
    IN  (f.e :> ((attr.name :> entry) @@ obj)) @@ c

\* the arrays of `collected` have room for one more value
ArraysBounded ==
    \A e \in DOMAIN collected :
        "many" \in DOMAIN collected[e] => Len(collected[e]["many"]) <= MaxFacts

\* entities_at, lines 314-359: one iteration of the loop
EntitiesAtStep ==
    /\ ea_pc = "loop"
    /\ it # NoEntry
    /\ ArraysBounded
    /\ IF it.vld > ea_vld
       THEN /\ current' = AmendValidity(KeyOf(it), ea_vld)
            /\ UNCHANGED collected
       ELSE /\ current' = AmendValidityToInfPast(KeyOf(it))
            /\ collected' = IF Yields(it) THEN Collect(collected, it) ELSE collected
    /\ it' = Seek(current')
    /\ UNCHANGED <<eav, ea_pc, ea_vld, ea_result>>

\* entities_at, line 360: the objects of the map in the order of its keys
IntoVec(c) ==
    [i \in 1..Cardinality(DOMAIN c) |->
        c[CHOOSE e \in DOMAIN c : Cardinality({d \in DOMAIN c : d < e}) = i - 1]]

\* entities_at, lines 314 and 360-361: the iterator is exhausted
EntitiesAtEnd ==
    /\ ea_pc = "loop"
    /\ it = NoEntry
    /\ ea_pc' = "done"
    /\ ea_result' = IntoVec(collected)
    /\ UNCHANGED <<eav, ea_vld, current, it, collected>>

\* the caller has the result; the next call starts afresh
EntitiesAtReturn ==
    /\ ea_pc = "done"
    /\ ea_pc' = "idle"
    /\ collected' = << >>
    /\ ea_result' = << >>
    /\ current' = KeyOf(NoEntry)
    /\ ea_vld' = VldMin
    /\ UNCHANGED <<eav, it>>

\* the steps below leave the sessions alone
ScanOnly == UNCHANGED <<qvars, txvars, ovars, pvars, nvars, svars, evars, dvars, zvars, mvars>>

NextScan ==
    \/ \E f \in Facts : PutFact(f) /\ ScanOnly
    \/ \E vld \in ReadVlds : EntitiesAtBegin(vld) /\ ScanOnly
    \/ EntitiesAtStep /\ ScanOnly
    \/ EntitiesAtEnd /\ ScanOnly
    \/ EntitiesAtReturn /\ ScanOnly

(* ------------------------ sort, offset and limit ----------------------- *)

\* the entry relation has one column, with values 1..MaxRow
MaxRow == 3
\* limit and offset are none or 0..MaxLimit
MaxLimit == 2

\* Option<usize>
None == [some |-> FALSE, val |-> 0]
Some(n) == [some |-> TRUE, val |-> n]
OptUsize == {None} \cup {Some(n) : n \in 0..MaxLimit}

\* out_opts.sorters: no sorter, or the one column ascending or descending
Sorters == {<< >>, <<"Asc">>, <<"Dsc">>}

Min(a, b) == IF a < b THEN a ELSE b

\* out_opts.num_to_take(): the limit
NumToTake(opts) == opts.limit

\* a run_query that pushes the limit down whatever the sorters are
EvaluatorLimit_Always(opts) == NumToTake(opts)

\* run_query, lines 480-484: the limit given to stratified_magic_evaluate
EvaluatorLimit(opts) == IF opts.sorters = << >> THEN NumToTake(opts) ELSE None

\* stratified_magic_evaluate with a limit: the results it can return, all the
\* tuples without a limit and any `limit` of them with one
Evaluations(tuples, limit) ==
    IF limit.some
    THEN {s \in SUBSET tuples : Cardinality(s) = Min(limit.val, Cardinality(tuples))}
    ELSE {tuples}

\* the sort key of a row: direction-aware inversion
SortKey(row, dir) == IF dir = "Dsc" THEN 0 - row ELSE row

\* sort_and_collect(..).scan_sorted(): the rows in the order of their keys
RECURSIVE ScanSorted(_, _)
ScanSorted(rows, dir) ==
    IF rows = {} THEN << >>
    ELSE LET first == CHOOSE r \in rows :
                        \A q \in rows : SortKey(r, dir) <= SortKey(q, dir)
         IN  <<first>> \o ScanSorted(rows \ {first}, dir)

\* result.scan_all(): the rows in the order of the store
ScanAll(rows) == ScanSorted(rows, "Asc")

\* Iterator::skip(n)
Skip(seq, n) == SubSeq(seq, n + 1, Len(seq))

\* Iterator::take(n)
Take(seq, n) == SubSeq(seq, 1, Min(n, Len(seq)))

\* a pagination that applies the limit before the offset
Paginate_LimitFirst(seq, opts) ==
    LET limited == IF opts.limit.some THEN Take(seq, opts.limit.val) ELSE seq
    IN  IF opts.offset.some THEN Skip(limited, opts.offset.val) ELSE limited

\* run_query, lines 494-503: skip(offset) if there is one, then take(limit) if
\* there is one
Paginate(seq, opts) ==
    LET skipped == IF opts.offset.some THEN Skip(seq, opts.offset.val) ELSE seq
    IN  IF opts.limit.some THEN Take(skipped, opts.limit.val) ELSE skipped

InitOutput ==
    /\ o_pc = "idle"
    /\ out_opts = [sorters |-> << >>, limit |-> None, offset |-> None]
    /\ derived = {}
    /\ num_to_take = None
    /\ eval_result = {}
    /\ sorted_iter = << >>

\* run_query, lines 437-476: a program with these options, whose entry relation
\* holds `tuples`, reaches the evaluation
OutputBegin(opts, tuples) ==
    /\ o_pc = "idle"
    /\ o_pc' = "evaluate"
    /\ out_opts' = opts
    /\ derived' = tuples
    /\ num_to_take' = None
    /\ eval_result' = {}
    /\ sorted_iter' = << >>

\* run_query, lines 477-486: stratified_magic_evaluate
OutputEvaluate ==
    /\ o_pc = "evaluate"
    /\ num_to_take' = EvaluatorLimit(out_opts)
    /\ eval_result' \in Evaluations(derived, EvaluatorLimit(out_opts))
    /\ o_pc' = "collect"
    /\ UNCHANGED <<out_opts, derived, sorted_iter>>

\* run_query, lines 491-503: the sorters are not empty
OutputSorted ==
    /\ o_pc = "collect"
    /\ out_opts.sorters # << >>
    /\ sorted_iter' = Paginate(ScanSorted(eval_result, out_opts.sorters[1]), out_opts)
    /\ o_pc' = "done"
    /\ UNCHANGED <<out_opts, derived, num_to_take, eval_result>>

\* run_query, lines 513-522: the sorters are empty
OutputUnsorted ==
    /\ o_pc = "collect"
    /\ out_opts.sorters = << >>
    /\ sorted_iter' = ScanAll(eval_result)
    /\ o_pc' = "done"
    /\ UNCHANGED <<out_opts, derived, num_to_take, eval_result>>

\* run_query returns
OutputReturn ==
    /\ o_pc = "done"
    /\ o_pc' = "idle"
    /\ UNCHANGED <<out_opts, derived, num_to_take, eval_result, sorted_iter>>

\* the steps below leave the rest of the handle alone
OutputOnly == UNCHANGED <<qvars, txvars, eavars, pvars, nvars, svars, evars, dvars, zvars, mvars>>

NextOutput ==
    \/ \E s \in Sorters, l, o \in OptUsize, tuples \in SUBSET (1..MaxRow) :
            OutputBegin([sorters |-> s, limit |-> l, offset |-> o], tuples) /\ OutputOnly
    \/ OutputEvaluate /\ OutputOnly
    \/ OutputSorted /\ OutputOnly
    \/ OutputUnsorted /\ OutputOnly
    \/ OutputReturn /\ OutputOnly

(* ------------------------------ parse_query ---------------------------- *)

\* number of pairs of a script, the EOI pair not counted
MaxPairs == 3

\* PROG_ENTRY and one more rule name
RuleNames == {"?", "p"}

\* the text of an integer option, character by character
Literals == {<<"0">>, <<"1", "_", "0">>, <<"-", "1">>, <<"x">>}

\* the pairs pest can hand to parse_query: a rule with its head length and the
\* atoms of its body, an algo rule, a const rule, and the options
RulePairs ==
    [rule : {"rule"}, name : RuleNames, head : {1, 2}, body : {"none", "triple"}]
AlgoRulePairs == [rule : {"algo_rule"}, name : RuleNames]
ConstRulePairs == [rule : {"const_rule"}]
TimeoutPairs == [rule : {"timeout_option"}, text : {<<"0">>, <<"5">>}]
LimitPairs == [rule : {"limit_option"}, text : Literals]
OffsetPairs == [rule : {"offset_option"}, text : Literals]
SortPairs == [rule : {"sort_option"}, dir : {"Dsc"}]
OutPairs == [rule : {"out_option"}]
ViewPairs == [rule : {"view_option"}, op : ViewOps, name : ViewNames]
Pairs ==
    RulePairs \cup AlgoRulePairs \cup ConstRulePairs \cup TimeoutPairs
        \cup LimitPairs \cup OffsetPairs \cup SortPairs \cup OutPairs \cup ViewPairs

Scripts == UNION {[1..n -> Pairs] : n \in 0..MaxPairs}

\* Result<T>: Ok(val), Err(report), and a panic that unwinds out of parse_query
POk(v) == [tag |-> "Ok", val |-> v, msg |-> ""]
PErr(m) == [tag |-> "Err", val |-> 0, msg |-> m]
Panic(m) == [tag |-> "Panic", val |-> 0, msg |-> m]
PNone == [tag |-> "None", val |-> 0, msg |-> ""]
\* parse_query has not been called
PIdle == [tag |-> "Idle", val |-> 0, msg |-> ""]

\* todo!()
Todo == Panic("not yet implemented")

\* build_expr, lines 423-426
build_expr == Todo

\* parse_algo_rule, lines 363-364
parse_algo_rule == Todo

\* parse_out_option, lines 437-458
parse_out_option == Todo

\* parse_triple, lines 283-295: the fields of the atom are todo!()
parse_triple == Todo

\* parse_rule, lines 182-212: the head, then the atoms of the body; the rule is
\* marked with its place in the source
parse_rule(pair) ==
    IF pair.body = "none"
    THEN POk([head |-> pair.head, pos |-> p_pos + 1])
    ELSE parse_triple

\* the decimal digits; the value of a digit is its index less one
Digits == <<"0", "1", "2", "3", "4", "5", "6", "7", "8", "9">>
IsDigit(ch) == \E i \in 1..Len(Digits) : Digits[i] = ch
DigitValue(ch) == (CHOOSE i \in 1..Len(Digits) : Digits[i] = ch) - 1

\* str::replace('_', "")
RECURSIVE StripUnderscores(_)
StripUnderscores(text) ==
    IF text = << >> THEN << >>
    ELSE IF Head(text) = "_" THEN StripUnderscores(Tail(text))
    ELSE <<Head(text)>> \o StripUnderscores(Tail(text))

RECURSIVE DecimalValue(_)
DecimalValue(text) ==
    IF text = << >> THEN 0
    ELSE 10 * DecimalValue(SubSeq(text, 1, Len(text) - 1)) + DigitValue(text[Len(text)])

\* usize::from_str: an optional '+', then one digit or more
UsizeFromStr(text) ==
    LET digits == IF text # << >> /\ Head(text) = "+" THEN Tail(text) ELSE text IN
    IF digits # << >> /\ \A i \in 1..Len(digits) : IsDigit(digits[i])
    THEN POk(DecimalValue(digits))
    ELSE PErr("invalid digit found in string")

\* str2usize, lines 433-435, called by parse_limit_or_offset, lines 428-431
str2usize(text) == UsizeFromStr(StripUnderscores(text))

NoOpts ==
    [timeout |-> None, limit |-> None, offset |-> None, sorters |-> << >>,
     out_spec |-> FALSE, as_view |-> NoView, arity |-> 0]

InitParse ==
    /\ p_src = << >>
    /\ p_pos = 0
    /\ progs = << >>
    /\ p_opts = NoOpts
    /\ p_result = PIdle

\* parse_query, lines 20-27: the call with the pairs of some script
ParseBegin ==
    /\ p_result = PIdle
    /\ p_src' \in Scripts
    /\ p_pos' = 0
    /\ progs' = << >>
    /\ p_opts' = NoOpts
    /\ p_result' = PNone

\* the pair the loop of parse_query is at
Pair == p_src[p_pos + 1]

\* the loop is at a pair of rule r
At(r) ==
    /\ p_result = PNone
    /\ p_pos < Len(p_src)
    /\ Pair.rule = r

\* the loop goes on to the next pair
Continue == p_pos' = p_pos + 1 /\ UNCHANGED <<p_src, p_result>>

\* `?`, bail!, ensure! or a panic: parse_query is left with r
Leave(r) == p_pos' = p_pos + 1 /\ p_result' = r /\ UNCHANGED p_src

\* parse_query, lines 31-44: Rule::rule
ParseRule ==
    /\ At("rule")
    /\ LET r == parse_rule(Pair) IN
        IF r.tag # "Ok"
        THEN Leave(r) /\ UNCHANGED <<progs, p_opts>>
        ELSE IF Pair.name \notin DOMAIN progs
        THEN /\ progs' = MapInsert(progs, Pair.name, [kind |-> "Rules", rules |-> <<r.val>>])
             /\ Continue
             /\ UNCHANGED p_opts
        ELSE IF progs[Pair.name].kind = "Rules"
        THEN /\ progs' = [progs EXCEPT ![Pair.name].rules = Append(@, r.val)]
             /\ Continue
             /\ UNCHANGED p_opts
        ELSE Leave(PErr("cannot mix rules and algo")) /\ UNCHANGED <<progs, p_opts>>

\* parse_query, lines 45-53: Rule::algo_rule
ParseAlgoRule ==
    /\ At("algo_rule")
    /\ LET r == parse_algo_rule IN
        IF r.tag # "Ok"
        THEN Leave(r) /\ UNCHANGED <<progs, p_opts>>
        ELSE IF Pair.name \notin DOMAIN progs
        THEN /\ progs' = MapInsert(progs, Pair.name, [kind |-> "Algo", rules |-> <<r.val>>])
             /\ Continue
             /\ UNCHANGED p_opts
        ELSE Leave(PErr("algo rule can only be defined once")) /\ UNCHANGED <<progs, p_opts>>

\* parse_query, lines 54-93: Rule::const_rule, which starts with build_expr
ParseConstRule ==
    /\ At("const_rule")
    /\ Leave(build_expr)
    /\ UNCHANGED <<progs, p_opts>>

\* parse_query, lines 94-101: Rule::timeout_option
ParseTimeout ==
    /\ At("timeout_option")
    /\ LET e == build_expr IN
        IF e.tag # "Ok"
        THEN Leave(e) /\ UNCHANGED p_opts
        ELSE IF e.val <= 0
        THEN Leave(PErr("timeout must be positive")) /\ UNCHANGED p_opts
        ELSE p_opts' = [p_opts EXCEPT !.timeout = Some(e.val)] /\ Continue
    /\ UNCHANGED progs

\* parse_query, lines 102-105: Rule::limit_option
ParseLimit ==
    /\ At("limit_option")
    /\ LET n == str2usize(Pair.text) IN
        IF n.tag # "Ok"
        THEN Leave(n) /\ UNCHANGED p_opts
        ELSE p_opts' = [p_opts EXCEPT !.limit = Some(n.val)] /\ Continue
    /\ UNCHANGED progs

\* parse_query, lines 106-109: Rule::offset_option
ParseOffset ==
    /\ At("offset_option")
    /\ LET n == str2usize(Pair.text) IN
        IF n.tag # "Ok"
        THEN Leave(n) /\ UNCHANGED p_opts
        ELSE p_opts' = [p_opts EXCEPT !.offset = Some(n.val)] /\ Continue
    /\ UNCHANGED progs

\* parse_query, lines 110-124: Rule::sort_option
ParseSort ==
    /\ At("sort_option")
    /\ p_opts' = [p_opts EXCEPT !.sorters = Append(@, Pair.dir)]
    /\ Continue
    /\ UNCHANGED progs

\* parse_query, lines 125-131: Rule::out_option
ParseOut ==
    /\ At("out_option")
    /\ IF p_opts.as_view # NoView
       THEN Leave(PErr("cannot use out spec with 'view'")) /\ UNCHANGED p_opts
       ELSE LET o == parse_out_option IN
            IF o.tag # "Ok"
            THEN Leave(o) /\ UNCHANGED p_opts
            ELSE p_opts' = [p_opts EXCEPT !.out_spec = TRUE] /\ Continue
    /\ UNCHANGED progs

\* parse_query, lines 132-153: Rule::view_option
ParseView ==
    /\ At("view_option")
    /\ IF p_opts.out_spec
       THEN Leave(PErr("cannot use out spec with 'view'")) /\ UNCHANGED p_opts
       ELSE /\ p_opts' = [p_opts EXCEPT !.as_view = [op |-> Pair.op, name |-> Pair.name],
                                        !.arity = 0]
            /\ Continue
    /\ UNCHANGED progs

\* get_entry_arity, lines 170-180
get_entry_arity ==
    IF "?" \notin DOMAIN progs THEN PErr("program entry point not found")
    ELSE POk(progs["?"].rules[1].head)

\* parse_query, lines 154-167: Rule::EOI, the arity of the view, Ok(InputProgram)
ParseEOI ==
    /\ p_result = PNone
    /\ p_pos = Len(p_src)
    /\ IF p_opts.as_view # NoView
       THEN IF get_entry_arity.tag # "Ok"
            THEN p_result' = get_entry_arity /\ UNCHANGED p_opts
            ELSE /\ p_opts' = [p_opts EXCEPT !.arity = get_entry_arity.val]
                 /\ p_result' = POk(0)
       ELSE p_result' = POk(0) /\ UNCHANGED p_opts
    /\ UNCHANGED <<p_src, p_pos, progs>>

\* the steps below leave the database handle alone
ParseOnly == UNCHANGED <<qvars, txvars, eavars, ovars, nvars, svars, evars, dvars, zvars, mvars>>

NextParse ==
    \/ ParseBegin /\ ParseOnly
    \/ ParseRule /\ ParseOnly
    \/ ParseAlgoRule /\ ParseOnly
    \/ ParseConstRule /\ ParseOnly
    \/ ParseTimeout /\ ParseOnly
    \/ ParseLimit /\ ParseOnly
    \/ ParseOffset /\ ParseOnly
    \/ ParseSort /\ ParseOnly
    \/ ParseOut /\ ParseOnly
    \/ ParseView /\ ParseOnly
    \/ ParseEOI /\ ParseOnly

(* ------------------------- negation normal form ------------------------ *)

\* number of Negation, Conjunction and Disjunction nodes put around an atom
MaxWraps == 3

\* InputAtom: the variant, the atoms inside it, and for a Predicate the number
\* of times its expression was negated
Atom(tag) == [tag |-> tag, inner |-> << >>, nots |-> 0]
Negation(a) == [tag |-> "Negation", inner |-> <<a>>, nots |-> 0]
Conjunction(args) == [tag |-> "Conjunction", inner |-> args, nots |-> 0]
Disjunction(args) == [tag |-> "Disjunction", inner |-> args, nots |-> 0]

AtomTags == {"AttrTriple", "Rule", "Relation", "Predicate", "Unification"}

\* the second atom of a Conjunction or Disjunction of the input
SiblingTags == {"AttrTriple", "Predicate", "Unification"}
Siblings ==
    {Atom(tag) : tag \in SiblingTags} \cup {Negation(Atom(tag)) : tag \in SiblingTags}

\* Result<InputAtom>
NOk(a) == [ok |-> TRUE, val |-> a]
NErr == [ok |-> FALSE, val |-> Atom("Unification")]
NNone == [ok |-> FALSE, val |-> Atom("None")]

\* Expr::negate: the expression is put under `not`
PredicateNegate(p) == [p EXCEPT !.nots = @ + 1]

\* Iterator::try_collect over the results for the atoms of args
TryCollect(results) ==
    IF \E i \in 1..Len(results) : ~results[i].ok
    THEN NErr
    ELSE NOk([i \in 1..Len(results) |-> results[i].val])

RECURSIVE negation_normal_form(_)

\* a Negation of an atom that lets a Unification through
NegatedAtom_AnyAtom(a) ==
    IF a.tag = "Predicate" THEN NOk(PredicateNegate(a)) ELSE NOk(Negation(a))

\* a Negation of an atom that returns the atom without the Negation
NegatedAtom_Dropped(a) == IF a.tag = "Unification" THEN NErr ELSE NOk(a)

\* negation_normal_form, lines 74-82 and 112-114: Negation of an AttrTriple,
\* Rule or Relation, of a Predicate, of a Unification
NegatedAtom(a) ==
    IF a.tag = "Unification" THEN NErr
    ELSE IF a.tag = "Predicate" THEN NOk(PredicateNegate(a))
    ELSE NOk(Negation(a))

\* a double negation that returns the atom inside it as it is
DoubleNegation_Raw(a) == NOk(a)

\* negation_normal_form, line 83: Negation of Negation
DoubleNegation(a) == negation_normal_form(a)

\* a De Morgan step that does not normalise the negated arguments
NegateEach_Raw(args) == NOk([i \in 1..Len(args) |-> Negation(args[i])])

\* negation_normal_form, lines 85-95 and 99-109: every argument is put into a
\* Negation, which is normalised
NegateEach(args) ==
    TryCollect([i \in 1..Len(args) |-> negation_normal_form(Negation(args[i]))])

\* InputAtom::negation_normal_form, lines 52-117
negation_normal_form(a) ==
    IF a.tag \in {"AttrTriple", "Rule", "Predicate", "Relation", "Unification"}
    THEN NOk(a)
    ELSE IF a.tag \in {"Conjunction", "Disjunction"}
    THEN LET args == TryCollect([i \in 1..Len(a.inner) |-> negation_normal_form(a.inner[i])])
         IN  IF args.ok THEN NOk([a EXCEPT !.inner = args.val]) ELSE NErr
    ELSE LET arg == a.inner[1] IN
         IF arg.tag = "Negation" THEN DoubleNegation(arg.inner[1])
         ELSE IF arg.tag = "Conjunction"
         THEN LET args == NegateEach(arg.inner)
              IN  IF args.ok THEN NOk(Disjunction(args.val)) ELSE NErr
         ELSE IF arg.tag = "Disjunction"
         THEN LET args == NegateEach(arg.inner)
              IN  IF args.ok THEN NOk(Conjunction(args.val)) ELSE NErr
         ELSE NegatedAtom(arg)

\* the nodes put around the first atom of an input
RECURSIVE Wraps(_)
Wraps(a) == IF a.inner = << >> THEN 0 ELSE 1 + Wraps(a.inner[1])

InitNnf ==
    /\ n_pc = "none"
    /\ atom = Atom("None")
    /\ nnf_once = NNone
    /\ nnf_twice = NNone

\* the parser makes an atom that holds no other atom
InputAtom(tag) ==
    /\ n_pc = "none"
    /\ atom' = Atom(tag)
    /\ n_pc' = "input"
    /\ UNCHANGED <<nnf_once, nnf_twice>>

\* a Conjunction or a Disjunction of no atoms
InputEmpty(tag) ==
    /\ n_pc = "none"
    /\ atom' = [tag |-> tag, inner |-> << >>, nots |-> 0]
    /\ n_pc' = "input"
    /\ UNCHANGED <<nnf_once, nnf_twice>>

\* the parser puts the atom into a Negation
InputNegation ==
    /\ n_pc = "input"
    /\ Wraps(atom) < MaxWraps
    /\ atom' = Negation(atom)
    /\ UNCHANGED <<n_pc, nnf_once, nnf_twice>>

\* the parser puts the atom, and one more, into a Conjunction
InputConjunction(b) ==
    /\ n_pc = "input"
    /\ Wraps(atom) < MaxWraps
    /\ atom' = Conjunction(<<atom, b>>)
    /\ UNCHANGED <<n_pc, nnf_once, nnf_twice>>

\* the parser puts the atom, and one more, into a Disjunction
InputDisjunction(b) ==
    /\ n_pc = "input"
    /\ Wraps(atom) < MaxWraps
    /\ atom' = Disjunction(<<atom, b>>)
    /\ UNCHANGED <<n_pc, nnf_once, nnf_twice>>

\* atom.negation_normal_form()
NnfOnce ==
    /\ n_pc = "input"
    /\ nnf_once' = negation_normal_form(atom)
    /\ n_pc' = "once"
    /\ UNCHANGED <<atom, nnf_twice>>

\* negation_normal_form() of the Ok output
NnfTwice ==
    /\ n_pc = "once"
    /\ nnf_once.ok
    /\ nnf_twice' = negation_normal_form(nnf_once.val)
    /\ n_pc' = "twice"
    /\ UNCHANGED <<atom, nnf_once>>

\* the steps below leave everything else alone
NnfOnly == UNCHANGED <<qvars, txvars, eavars, ovars, pvars, svars, evars, dvars, zvars, mvars>>

NextNnf ==
    \/ \E tag \in AtomTags : InputAtom(tag) /\ NnfOnly
    \/ \E tag \in {"Conjunction", "Disjunction"} : InputEmpty(tag) /\ NnfOnly
    \/ InputNegation /\ NnfOnly
    \/ \E b \in Siblings : InputConjunction(b) /\ NnfOnly
    \/ \E b \in Siblings : InputDisjunction(b) /\ NnfOnly
    \/ NnfOnce /\ NnfOnly
    \/ NnfTwice /\ NnfOnly

(* --------------------- disjunctive_normal_form ------------------------- *)

\* NormalFormAtom: the variant, whether it is the Negated variant, and for a
\* Predicate the number of times its expression was negated
NormalFormAtom(a, negated) == [tag |-> a.tag, negated |-> negated, nots |-> a.nots]

\* Result<Disjunction>, or the panic that ended the call
DOk(conjs) == [tag |-> "Ok", inner |-> conjs, msg |-> ""]
DErr(m) == [tag |-> "Err", inner |-> << >>, msg |-> m]
DPanic(m) == [tag |-> "Panic", inner |-> << >>, msg |-> m]
DNone == [tag |-> "None", inner |-> << >>, msg |-> ""]

\* Disjunction::singlet
Singlet(nf) == DOk(<< <<nf>> >>)

\* a product that takes the right conjunction first
CrossProduct_RightFirst(left, right) ==
    [n \in 1..(Len(left) * Len(right)) |->
        right[((n - 1) % Len(right)) + 1] \o left[((n - 1) \div Len(right)) + 1]]

\* Disjunction::conjunctive_to_disjunctive_de_morgen: for every left
\* conjunction, for every right conjunction, left extended by right
CrossProduct(left, right) ==
    [n \in 1..(Len(left) * Len(right)) |->
        left[((n - 1) \div Len(right)) + 1] \o right[((n - 1) % Len(right)) + 1]]

\* normalize of an AttrTriple, Rule or Relation that has no constant and no
\* repeated variable: the atom alone; the attribute of a triple must be found
Normalized(a, negated, found) ==
    IF a.tag = "AttrTriple" /\ ~found
    THEN DErr("attribute not found")
    ELSE DOk(<< <<NormalFormAtom(a, negated)>> >>)

\* do_disjunctive_normal_form, lines 134-140: the conjunctions of every argument
\* in order, up to the first argument that fails
RECURSIVE FlattenFrom(_, _, _)
FlattenFrom(results, i, acc) ==
    IF i > Len(results) THEN DOk(acc)
    ELSE IF results[i].tag # "Ok" THEN results[i]
    ELSE FlattenFrom(results, i + 1, acc \o results[i].inner)

\* do_disjunctive_normal_form, lines 147-150: the result so far is multiplied
\* by every later argument in order, up to the first argument that fails
RECURSIVE MultiplyFrom(_, _, _)
MultiplyFrom(results, i, acc) ==
    IF i > Len(results) THEN DOk(acc)
    ELSE IF results[i].tag # "Ok" THEN results[i]
    ELSE MultiplyFrom(results, i + 1, CrossProduct(acc, results[i].inner))

\* InputAtom::do_disjunctive_normal_form, lines 125-169
RECURSIVE do_disjunctive_normal_form(_, _)
do_disjunctive_normal_form(a, found) ==
    IF a.tag = "Disjunction"
    THEN FlattenFrom([i \in 1..Len(a.inner) |->
                        do_disjunctive_normal_form(a.inner[i], found)], 1, << >>)
    ELSE IF a.tag = "Conjunction"
    THEN IF a.inner = << >>
         THEN DPanic("called Option::unwrap() on a None value")
         ELSE LET args == [i \in 1..Len(a.inner) |->
                            do_disjunctive_normal_form(a.inner[i], found)]
              IN  IF args[1].tag # "Ok" THEN args[1]
                  ELSE MultiplyFrom(args, 2, args[1].inner)
    ELSE IF a.tag \in {"AttrTriple", "Rule", "Relation"}
    THEN Normalized(a, FALSE, found)
    ELSE IF a.tag \in {"Predicate", "Unification"}
    THEN Singlet(NormalFormAtom(a, FALSE))
    ELSE IF a.inner[1].tag \in {"AttrTriple", "Rule", "Relation"}
         THEN Normalized(a.inner[1], TRUE, found)
         ELSE DPanic("internal error: entered unreachable code")

\* InputAtom::disjunctive_normal_form, lines 119-123
disjunctive_normal_form(a, found) ==
    LET neg_form == negation_normal_form(a)
    IN  IF neg_form.ok
        THEN do_disjunctive_normal_form(neg_form.val, found)
        ELSE DErr("unification not allowed in negation")

InitDnf == dnf = DNone

\* atom.disjunctive_normal_form(tx), in a transaction that finds the attribute
\* of the triples or does not
DisjunctiveNormalForm(found) ==
    /\ n_pc = "input"
    /\ dnf' = disjunctive_normal_form(atom, found)
    /\ n_pc' = "dnf"
    /\ UNCHANGED <<atom, nnf_once, nnf_twice>>

\* the steps below leave everything else alone
DnfOnly == UNCHANGED <<qvars, txvars, eavars, ovars, pvars, svars, evars, zvars, mvars>>

\* the second atom of a Conjunction or Disjunction: one atom, or a Disjunction
\* of two
DnfSiblings == Siblings \cup {Disjunction(<<Atom("Rule"), Atom("Relation")>>)}

\* the atoms the parser makes, and disjunctive_normal_form of each
NextDnf ==
    \/ \E tag \in AtomTags : InputAtom(tag) /\ NnfOnly
    \/ \E tag \in {"Conjunction", "Disjunction"} : InputEmpty(tag) /\ NnfOnly
    \/ InputNegation /\ NnfOnly
    \/ \E b \in DnfSiblings : InputConjunction(b) /\ NnfOnly
    \/ \E b \in DnfSiblings : InputDisjunction(b) /\ NnfOnly
    \/ \E found \in BOOLEAN : DisjunctiveNormalForm(found) /\ DnfOnly

(* ------------------------------ normalize ------------------------------ *)

\* number of arguments of a rule or relation application
MaxArgs == 3
\* number of symbols the generator made for the atoms normalized before
MaxGen == 1

\* InputTerm: a variable or a constant
Var(name) == [var |-> TRUE, name |-> name, val |-> 0]
Const(val) == [var |-> FALSE, name |-> "", val |-> val]
InputTerms == {Var("x"), Var("y"), Const(1), Const(2)}

\* Symbol: one the query wrote, or the n-th one of the generator
Symbol(name) == [name |-> name, temp |-> 0]
TempSymbol(n) == [name |-> "*", temp |-> n]

\* the atoms: a rule or relation application name(args), a triple
\* [entity attr value]
ApplyAtoms ==
    [kind : {"Rule", "Relation"}, name : {"r"},
     args : UNION {[1..n -> InputTerms] : n \in 0..MaxArgs}, negated : BOOLEAN]
TripleAtoms ==
    [kind : {"AttrTriple"}, name : {"attr"}, args : [1..2 -> InputTerms], negated : BOOLEAN]

\* NormalFormAtom::Unification of binding with Expr::Const or Expr::Binding
UnifyConst(binding, val) ==
    [tag |-> "Unification", name |-> "", args |-> <<binding>>,
     expr |-> [const |-> TRUE, val |-> val, var |-> ""]]
UnifyBinding(binding, var) ==
    [tag |-> "Unification", name |-> "", args |-> <<binding>>,
     expr |-> [const |-> FALSE, val |-> 0, var |-> var]]

\* NormalFormAtom::Rule, NegatedRule, Relation, NegatedRelation, AttrTriple,
\* NegatedAttrTriple
Wrap(a, args) ==
    [tag |-> IF a.negated THEN "Negated" \o a.kind ELSE a.kind,
     name |-> a.name, args |-> args,
     expr |-> [const |-> FALSE, val |-> 0, var |-> ""]]

\* Result<Disjunction> of normalize, and the generator afterwards
ZOk(conj, gen) == [ok |-> TRUE, inner |-> <<conj>>, gen |-> gen]
ZErr(gen) == [ok |-> FALSE, inner |-> << >>, gen |-> gen]

\* a loop over the arguments that gives every later occurrence of a variable
\* the symbol of the first
NormalizeArgs_Reuse(terms, i, seen_variables, gen, ret, args) ==
    [ret |-> << >>, gen |-> gen,
     args |-> [j \in 1..Len(terms) |->
                IF terms[j].var THEN Symbol(terms[j].name) ELSE TempSymbol(gen + j)]]

\* InputRuleApplyAtom::normalize, lines 177-209, and
\* InputRelationApplyAtom::normalize, lines 378-411: the loop over the arguments
\* from the i-th on
RECURSIVE NormalizeArgs(_, _, _, _, _, _)
NormalizeArgs(terms, i, seen_variables, gen, ret, args) ==
    IF i > Len(terms) THEN [ret |-> ret, args |-> args, gen |-> gen]
    ELSE IF terms[i].var /\ terms[i].name \notin seen_variables
    THEN NormalizeArgs(terms, i + 1, seen_variables \cup {terms[i].name}, gen, ret,
                       Append(args, Symbol(terms[i].name)))
    ELSE IF terms[i].var
    THEN NormalizeArgs(terms, i + 1, seen_variables, gen + 1,
                       Append(ret, UnifyBinding(TempSymbol(gen + 1), terms[i].name)),
                       Append(args, TempSymbol(gen + 1)))
    ELSE NormalizeArgs(terms, i + 1, seen_variables, gen + 1,
                       Append(ret, UnifyConst(TempSymbol(gen + 1), terms[i].val)),
                       Append(args, TempSymbol(gen + 1)))

\* InputRuleApplyAtom::normalize and InputRelationApplyAtom::normalize
NormalizeApply(a, gen) ==
    LET done == NormalizeArgs(a.args, 1, {}, gen, << >>, << >>)
    IN  ZOk(Append(done.ret, Wrap(a, done.args)), done.gen)

\* InputAttrTripleAtom::normalize, lines 229-370
NormalizeTriple(a, gen, found) ==
    LET entity == a.args[1]
        value == a.args[2]
    IN  IF ~found THEN ZErr(gen)
        ELSE IF ~entity.var /\ ~value.var
        THEN ZOk(<<UnifyConst(TempSymbol(gen + 1), entity.val),
                   UnifyConst(TempSymbol(gen + 2), value.val),
                   Wrap(a, <<TempSymbol(gen + 1), TempSymbol(gen + 2)>>)>>, gen + 2)
        ELSE IF entity.var /\ ~value.var
        THEN ZOk(<<UnifyConst(TempSymbol(gen + 1), value.val),
                   Wrap(a, <<Symbol(entity.name), TempSymbol(gen + 1)>>)>>, gen + 1)
        ELSE IF ~entity.var /\ value.var
        THEN ZOk(<<UnifyConst(TempSymbol(gen + 1), entity.val),
                   Wrap(a, <<TempSymbol(gen + 1), Symbol(value.name)>>)>>, gen + 1)
        ELSE IF entity.name = value.name
        THEN ZOk(<<UnifyBinding(TempSymbol(gen + 1), value.name),
                   Wrap(a, <<Symbol(entity.name), TempSymbol(gen + 1)>>)>>, gen + 1)
        ELSE ZOk(<<Wrap(a, <<Symbol(entity.name), Symbol(value.name)>>)>>, gen)

InitNormalize ==
    /\ nz_gen = 0
    /\ nz_atom = [kind |-> "None", name |-> "", args |-> << >>, negated |-> FALSE]
    /\ nz_result = ZErr(0)

\* an atom normalized before this one took a symbol from the generator
GenNext ==
    /\ nz_atom.kind = "None"
    /\ nz_gen < MaxGen
    /\ nz_gen' = nz_gen + 1
    /\ UNCHANGED <<nz_atom, nz_result>>

\* do_disjunctive_normal_form reaches a rule or relation application
NormalizeApplyAtom(a) ==
    /\ nz_atom.kind = "None"
    /\ nz_atom' = a
    /\ nz_result' = NormalizeApply(a, nz_gen)
    /\ nz_gen' = nz_result'.gen

\* do_disjunctive_normal_form reaches a triple, in a transaction that finds its
\* attribute or does not
NormalizeTripleAtom(a, found) ==
    /\ nz_atom.kind = "None"
    /\ nz_atom' = a
    /\ nz_result' = NormalizeTriple(a, nz_gen, found)
    /\ nz_gen' = nz_result'.gen

\* the steps below leave everything else alone
NormalizeOnly == UNCHANGED <<qvars, txvars, eavars, ovars, pvars, nvars, svars, evars, dvars, mvars>>

NextNormalize ==
    \/ GenNext /\ NormalizeOnly
    \/ \E a \in ApplyAtoms : NormalizeApplyAtom(a) /\ NormalizeOnly
    \/ \E a \in TripleAtoms, found \in BOOLEAN : NormalizeTripleAtom(a, found) /\ NormalizeOnly

(* -------------------------------- meta kv ------------------------------- *)

\* number of put_meta_kv and remove_meta_kv calls
MaxCalls == 3
\* length of a key path
MaxPath == 2

\* the strings of a key path, in their order
PathStrs == <<"a", "b">>
StrIndex(str) == CHOOSE i \in 1..Len(PathStrs) : PathStrs[i] = str
Paths == UNION {[1..n -> {"a", "b"}] : n \in 0..MaxPath}
MetaValues == {1, 2}

\* the order of Tuple(vec![Guard, Str(k1), ..]) keys under one relation id:
\* element by element, the shorter of two that agree first
RECURSIVE PathLess(_, _)
PathLess(k1, k2) ==
    IF k1 = << >> THEN k2 # << >>
    ELSE IF k2 = << >> THEN FALSE
    ELSE IF Head(k1) = Head(k2) THEN PathLess(Tail(k1), Tail(k2))
    ELSE StrIndex(Head(k1)) < StrIndex(Head(k2))

\* the stored keys from lower on, in key order: where the iterator stands after
\* seek(lower) and the next() calls that follow, up to the upper bound Bot
RECURSIVE IterFrom(_, _)
IterFrom(kv, keys) ==
    IF keys = {} THEN << >>
    ELSE LET k == CHOOSE k1 \in keys : \A k2 \in keys : k1 = k2 \/ PathLess(k1, k2)
         IN  <<[key |-> k, val |-> kv[k]]>> \o IterFrom(kv, keys \ {k})

\* an iterator that stops at the first key not beginning with the prefix
BeginsWith(k, prefix) == Len(k) >= Len(prefix) /\ SubSeq(k, 1, Len(prefix)) = prefix
meta_range_scan_Bounded(kv, prefix) ==
    IterFrom(kv, {k \in DOMAIN kv : BeginsWith(k, prefix)})

\* get_meta_kv, lines 562-573
get_meta_kv(kv, k) ==
    IF k \in DOMAIN kv THEN [some |-> TRUE, val |-> kv[k]] ELSE None

\* meta_range_scan, lines 574-633: seek to [Guard, prefix..], then every pair
\* below the upper bound [Bot]
meta_range_scan(kv, prefix) ==
    IterFrom(kv, {k \in DOMAIN kv : k = prefix \/ PathLess(prefix, k)})

\* no get_meta_kv or meta_range_scan since the last change
NoOut == [op |-> "none", arg |-> << >>, got |-> << >>]

InitMeta ==
    /\ meta_kv = << >>
    /\ meta_calls = << >>
    /\ meta_out = NoOut

\* put_meta_kv, lines 540-550
PutMetaKv(k, v) ==
    /\ Len(meta_calls) < MaxCalls
    /\ meta_kv' = MapInsert(meta_kv, k, v)
    /\ meta_calls' = Append(meta_calls, [op |-> "put", key |-> k, val |-> v])
    /\ meta_out' = NoOut

\* remove_meta_kv, lines 551-561
RemoveMetaKv(k) ==
    /\ Len(meta_calls) < MaxCalls
    /\ meta_kv' = [k1 \in DOMAIN meta_kv \ {k} |-> meta_kv[k1]]
    /\ meta_calls' = Append(meta_calls, [op |-> "remove", key |-> k, val |-> 0])
    /\ meta_out' = NoOut

\* a get_meta_kv call
GetMetaKv(k) ==
    /\ meta_out' = [op |-> "get", arg |-> k, got |-> <<get_meta_kv(meta_kv, k)>>]
    /\ UNCHANGED <<meta_kv, meta_calls>>

\* a meta_range_scan call, iterated to its end
MetaRangeScan(prefix) ==
    /\ meta_out' = [op |-> "scan", arg |-> prefix, got |-> meta_range_scan(meta_kv, prefix)]
    /\ UNCHANGED <<meta_kv, meta_calls>>

\* the steps below leave everything else alone
MetaOnly == UNCHANGED <<qvars, txvars, eavars, ovars, pvars, nvars, svars, evars, dvars, zvars>>

NextMeta ==
    \/ \E k \in Paths, v \in MetaValues : PutMetaKv(k, v) /\ MetaOnly
    \/ \E k \in Paths : RemoveMetaKv(k) /\ MetaOnly
    \/ \E k \in Paths : GetMetaKv(k) /\ MetaOnly
    \/ \E prefix \in Paths : MetaRangeScan(prefix) /\ MetaOnly

(* ----------------------------- stratify -------------------------------- *)

\* number of dependencies between the rules of one program
MaxEdges == 3

\* the rule names of a program: the entry and two more
StratRules == {"?", "p", "q"}

\* an edge R -> S of the graph over rule names: S appears in the body of R;
\* it is negative when S appears under negation or inside an aggregation
Edges == [from : StratRules, to : StratRules, negative : BOOLEAN]

\* the rules that appear in the bodies of the rules rs
DependsOn(rs, edges) == {e.to : e \in {x \in edges : x.from \in rs}}

RECURSIVE Closure(_, _)
Closure(rs, edges) ==
    LET more == rs \cup DependsOn(rs, edges)
    IN  IF more = rs THEN rs ELSE Closure(more, edges)

\* the rules reached from r over one edge or more
Reachable(r, edges) == Closure(DependsOn({r}, edges), edges)

\* the strongly connected component of r
SccOf(r, edges) == {r} \cup {s \in Reachable(r, edges) : r \in Reachable(s, edges)}

\* the strongly connected components of the graph
Sccs(edges) == {SccOf(r, edges) : r \in StratRules}

\* some component contains a negative edge
Unstratifiable(edges) ==
    \E scc \in Sccs(edges), e \in edges :
        e.negative /\ e.from \in scc /\ e.to \in scc

\* the rules of the strata made so far
Emitted == UNION {strata[i] : i \in 1..Len(strata)}

\* an ordering that takes the components as they come
Ready_Any(scc, done, edges) == TRUE

\* the topological order goes from the leaves to the entry: a component is next
\* once every component it depends on has been made a stratum
Ready(scc, done, edges) == DependsOn(scc, edges) \subseteq (scc \cup done)

InitStratify ==
    /\ st_pc = "program"
    /\ st_edges = {}
    /\ strata = << >>
    /\ st_result = "None"

\* the program has one more dependency between two of its rules
AddEdge(e) ==
    /\ st_pc = "program"
    /\ e \notin st_edges
    /\ Cardinality(st_edges) < MaxEdges
    /\ st_edges' = st_edges \cup {e}
    /\ UNCHANGED <<st_pc, strata, st_result>>

\* stratify: a component contains a negative edge
StratifyReject ==
    /\ st_pc = "program"
    /\ Unstratifiable(st_edges)
    /\ st_pc' = "done"
    /\ st_result' = "Err"
    /\ UNCHANGED <<st_edges, strata>>

\* stratify: no component contains a negative edge
StratifyAccept ==
    /\ st_pc = "program"
    /\ ~Unstratifiable(st_edges)
    /\ st_pc' = "order"
    /\ UNCHANGED <<st_edges, strata, st_result>>

\* stratify: the next component in topological order is one stratum
StratifyEmit(scc) ==
    /\ st_pc = "order"
    /\ scc \cap Emitted = {}
    /\ Ready(scc, Emitted, st_edges)
    /\ strata' = Append(strata, scc)
    /\ UNCHANGED <<st_pc, st_edges, st_result>>

\* stratify: every component is a stratum
StratifyReturn ==
    /\ st_pc = "order"
    /\ Emitted = StratRules
    /\ st_pc' = "done"
    /\ st_result' = "Ok"
    /\ UNCHANGED <<st_edges, strata>>

\* the steps below leave everything else alone
StratifyOnly == UNCHANGED <<qvars, txvars, eavars, ovars, pvars, nvars, evars, dvars, zvars, mvars>>

NextStratify ==
    \/ \E e \in Edges : AddEdge(e) /\ StratifyOnly
    \/ StratifyReject /\ StratifyOnly
    \/ StratifyAccept /\ StratifyOnly
    \/ \E scc \in Sccs(st_edges) : StratifyEmit(scc) /\ StratifyOnly
    \/ StratifyReturn /\ StratifyOnly

(* ------------------ magic sets and semi-naive evaluation ---------------- *)

\* number of triples in the store
MaxTriples == 3

\* the entities of the triples: the chain 1 -> 2 -> 3 -> 4 and every other
\* graph over its entities
Nodes == {1, 2, 3, 4}

\* the variables of a rule
RuleVars == {"x", "y", "z"}

\* a term of an atom: a variable or a constant
V(name) == [var |-> TRUE, name |-> name, val |-> 0]
K(val) == [var |-> FALSE, name |-> "", val |-> val]

\* a predicate as the input program names it, its adorned variant p^adorn and
\* the magic predicate magic_p^adorn
Plain(name) == [name |-> name, adorn |-> << >>, magic |-> FALSE]
Adorned(pred, adorn) == [pred EXCEPT !.adorn = adorn]
Magic(pred) == [pred EXCEPT !.magic = TRUE]

\* an atom pred(args) and a rule head :- body
A(name, args) == [pred |-> Plain(name), args |-> args]
R(head, body) == [head |-> head, body |-> body]

\* the triple atom [x :parent/child y]
Triple(s, o) == A("edge", <<s, o>>)

\* anc(x,y) :- [x :parent/child y]; anc(x,z) :- anc(x,y), anc(y,z)
AncRules ==
    {R(A("anc", <<V("x"), V("y")>>), <<Triple(V("x"), V("y"))>>),
     R(A("anc", <<V("x"), V("z")>>),
       <<A("anc", <<V("x"), V("y")>>), A("anc", <<V("y"), V("z")>>)>>)}

\* the same relation by a rule with one recursive subgoal
LinearRules ==
    {R(A("anc", <<V("x"), V("y")>>), <<Triple(V("x"), V("y"))>>),
     R(A("anc", <<V("x"), V("z")>>),
       <<Triple(V("x"), V("y")), A("anc", <<V("y"), V("z")>>)>>)}

\* two predicates recursive through each other: the paths of odd length, anc,
\* and of even length, even
OddEvenRules ==
    {R(A("anc", <<V("x"), V("y")>>), <<Triple(V("x"), V("y"))>>),
     R(A("even", <<V("x"), V("z")>>),
       <<A("anc", <<V("x"), V("y")>>), Triple(V("y"), V("z"))>>),
     R(A("anc", <<V("x"), V("z")>>),
       <<A("even", <<V("x"), V("y")>>), Triple(V("y"), V("z"))>>)}

\* the entry rule ?(s, o) :- name(s, o)
Entry(name, s, o) == R(A("?", <<s, o>>), <<A(name, <<s, o>>)>>)

\* ? (a,d) :- anc(a,d) over the rules of anc, in strata from the leaves to the
\* entry
TransitiveClosure == <<AncRules, {Entry("anc", V("x"), V("y"))}>>

\* the same with the first argument bound, a = 1
BoundClosure == <<AncRules, {Entry("anc", K(1), V("y"))}>>

\* the entry is over a relation of two free arguments
LinearClosure == <<LinearRules, {Entry("anc", V("x"), V("y"))}>>
OddEven == <<OddEvenRules, {Entry("even", V("x"), V("y"))}>>
FreePrograms == {TransitiveClosure, LinearClosure, OddEven}

\* the programs: each set of rules under an entry whose arguments are free or
\* bound to a constant
Programs ==
    {<<AncRules, {Entry("anc", s, o)}>> : s \in {V("x"), K(1)}, o \in {V("y"), K(4)}}
    \cup {<<LinearRules, {Entry("anc", s, o)}>> : s \in {V("x"), K(1)}, o \in {V("y"), K(4)}}
    \cup {<<OddEvenRules, {Entry("even", s, o)}>> : s \in {V("x"), K(1)}, o \in {V("y"), K(4)}}

\* the rules of every stratum of a program
RulesOf(prog) == UNION {prog[i] : i \in 1..Len(prog)}

\* the intensional predicates of a set of rules
Heads(rules) == {r.head.pred : r \in rules}

(* magic_sets_rewrite *)

\* the terms of args at the positions adorned bound
RECURSIVE SelectBound(_, _)
SelectBound(args, adorn) ==
    IF args = << >> THEN << >>
    ELSE (IF Head(adorn) = "b" THEN <<Head(args)>> ELSE << >>)
            \o SelectBound(Tail(args), Tail(adorn))

\* the variables among terms
VarsOf(terms) == {terms[i].name : i \in {j \in 1..Len(terms) : terms[j].var}}

\* sideways information passing, left to right: the variables bound before
\* the i-th subgoal, by the adornment of the head and by the subgoals before
BoundBefore(rule, adorn, i) ==
    VarsOf(SelectBound(rule.head.args, adorn))
        \cup UNION {VarsOf(rule.body[j].args) : j \in 1..(i - 1)}

\* the adornment of a subgoal: a position is bound when it holds a constant or
\* a bound variable
Adornment(goal, bound) ==
    [i \in 1..Len(goal.args) |->
        IF goal.args[i].var /\ goal.args[i].name \notin bound THEN "f" ELSE "b"]

\* B1...Bn with each intensional Bi replaced by its adorned variant
AdornedBody(rule, adorn, idb) ==
    [i \in 1..Len(rule.body) |->
        IF rule.body[i].pred \in idb
        THEN [rule.body[i] EXCEPT
                !.pred = Adorned(@, Adornment(rule.body[i], BoundBefore(rule, adorn, i)))]
        ELSE rule.body[i]]

\* p^adorn(X)
AdornedHead(rule, adorn) == [rule.head EXCEPT !.pred = Adorned(@, adorn)]

\* magic_p^adorn(bound(X)) of the adorned atom p^adorn(X)
MagicAtom(goal) ==
    [pred |-> Magic(goal.pred), args |-> SelectBound(goal.args, goal.pred.adorn)]

\* p^adorn(X) :- magic_p^adorn(bound(X)), B1...Bn
ModifiedRule(rule, adorn, idb) ==
    R(AdornedHead(rule, adorn),
      <<MagicAtom(AdornedHead(rule, adorn))>> \o AdornedBody(rule, adorn, idb))

\* a rewrite that emits no seed rule
SeedRules_None(rule, adorn, idb) == {}

\* for each intensional subgoal q^beta(Y) in body position i:
\* magic_q^beta(bound(Y)) :- magic_p^adorn(bound(X)), B1...B(i-1)
SeedRules(rule, adorn, idb) ==
    LET body == AdornedBody(rule, adorn, idb)
    IN  {R(MagicAtom(body[i]),
           <<MagicAtom(AdornedHead(rule, adorn))>> \o SubSeq(body, 1, i - 1)) :
            i \in {j \in 1..Len(body) : rule.body[j].pred \in idb}}

\* the rules of the predicate that p^adorn adorns
RulesFor(ap, rules) == {r \in rules : r.head.pred = Plain(ap.name)}

\* the adorned predicates in the bodies of the rules of p^adorn
SubgoalPreds(ap, rules, idb) ==
    UNION {{AdornedBody(rule, ap.adorn, idb)[i].pred :
                i \in {j \in 1..Len(rule.body) : rule.body[j].pred \in idb}} :
            rule \in RulesFor(ap, rules)}

\* every adorned predicate reached from aps
RECURSIVE AdornedClosure(_, _, _)
AdornedClosure(aps, rules, idb) ==
    LET more == aps \cup UNION {SubgoalPreds(ap, rules, idb) : ap \in aps}
    IN  IF more = aps THEN aps ELSE AdornedClosure(more, rules, idb)

\* the entry predicate ? with its head arity, adorned all free
EntryAdorned(prog) ==
    LET entry == CHOOSE r \in RulesOf(prog) : r.head.pred = Plain("?")
    IN  Adorned(Plain("?"), [i \in 1..Len(entry.head.args) |-> "f"])

\* the rewritten rules of every adorned predicate reached from the entry
magic_sets_rewrite(prog) ==
    LET rules == RulesOf(prog)
        idb == Heads(rules)
        aps == AdornedClosure({EntryAdorned(prog)}, rules, idb)
    IN  << UNION {UNION {{ModifiedRule(rule, ap.adorn, idb)}
                            \cup SeedRules(rule, ap.adorn, idb) :
                        rule \in RulesFor(ap, rules)} :
                  ap \in aps} >>

\* magic_?^all-free is seeded with the empty tuple
Seeds(prog, magic) == IF magic THEN {Magic(EntryAdorned(prog))} ELSE {}

(* stratified_magic_evaluate *)

\* the predicates of a set of rules that have a store: all but the triples
StoredPreds(rules) ==
    (Heads(rules) \cup UNION {{r.body[i].pred : i \in 1..Len(r.body)} : r \in rules})
        \ {Plain("edge")}

\* initialization: known_p holds the seed magic facts
InitialStores(compiled, seeds) ==
    [pred \in StoredPreds(RulesOf(compiled)) |->
        IF pred \in seeds THEN {<< >>} ELSE {}]

\* the bindings of the variables of a rule
Bindings == [RuleVars -> Nodes]

\* the tuple of an atom under a binding
TupleOf(goal, b) ==
    [i \in 1..Len(goal.args) |->
        IF goal.args[i].var THEN b[goal.args[i].name] ELSE goal.args[i].val]

\* the head tuples of a rule whose i-th subgoal reads the store stores[i]
EvalRule(rule, stores) ==
    {TupleOf(rule.head, b) :
        b \in {c \in Bindings :
                \A i \in 1..Len(rule.body) : TupleOf(rule.body[i], c) \in stores[i]}}

\* the store a subgoal reads in full: the triples, or known_p
Store(pred) == IF pred = Plain("edge") THEN edb ELSE known[pred]

\* the intensional predicates of the stratum under evaluation
StratumPreds == Heads(ev_prog[ev_stratum])

\* the positions of the intensional subgoals of the stratum in a rule
DeltaPositions(rule) ==
    {i \in 1..Len(rule.body) : rule.body[i].pred \in DOMAIN known}

\* every intensional subgoal reads new_*
SubgoalStore_AllDelta(rule, i, k) ==
    IF rule.body[i].pred \in DOMAIN known
    THEN new[rule.body[i].pred]
    ELSE Store(rule.body[i].pred)

\* step 1: exactly one intensional subgoal, the k-th, reads new_*, the others
\* read known_*
SubgoalStore(rule, i, k) ==
    IF i = k THEN new[rule.body[i].pred] ELSE Store(rule.body[i].pred)

\* step 1: the union over every intensional subgoal of the rule
DeltaEval(rule) ==
    UNION {EvalRule(rule, [i \in 1..Len(rule.body) |-> SubgoalStore(rule, i, k)]) :
            k \in DeltaPositions(rule)}

\* the first iteration of a stratum: every subgoal reads its store in full
FullEval(rule) ==
    EvalRule(rule, [i \in 1..Len(rule.body) |-> Store(rule.body[i].pred)])

\* the tuples the rules of p produce in this iteration
Produced(pred) ==
    UNION {IF ev_first THEN FullEval(rule) ELSE DeltaEval(rule) :
            rule \in {r \in ev_prog[ev_stratum] : r.head.pred = pred}}

InitEval ==
    /\ ev_pc = "store"
    /\ edb = {}
    /\ ev_input = << >>
    /\ ev_magic = FALSE
    /\ ev_prog = << >>
    /\ ev_stratum = 0
    /\ ev_first = TRUE
    /\ known = << >>
    /\ new = << >>

\* a transaction asserts [x :parent/child y]
AssertTriple(x, y) ==
    /\ ev_pc = "store"
    /\ <<x, y>> \notin edb
    /\ Cardinality(edb) < MaxTriples
    /\ edb' = edb \cup {<<x, y>>}
    /\ UNCHANGED <<ev_pc, ev_input, ev_magic, ev_prog, ev_stratum, ev_first, known, new>>

\* the evaluation of a program, rewritten or not, begins at its first stratum:
\* known_p holds the seed magic facts and new_p := known_p
EvaluateBegin(prog, magic) ==
    /\ ev_pc = "store"
    /\ ev_pc' = "stratum"
    /\ ev_input' = prog
    /\ ev_magic' = magic
    /\ ev_prog' = IF magic THEN magic_sets_rewrite(prog) ELSE prog
    /\ ev_stratum' = 1
    /\ ev_first' = TRUE
    /\ known' = InitialStores(ev_prog', Seeds(prog, magic))
    /\ new' = known'
    /\ UNCHANGED edb

\* steps 1 and 2: one iteration of the stratum
StratumIterate ==
    /\ ev_pc = "stratum"
    /\ ev_first \/ \E pred \in StratumPreds : new[pred] # {}
    /\ new' = [pred \in DOMAIN new |->
                IF pred \in StratumPreds THEN Produced(pred) \ known[pred] ELSE {}]
    /\ known' = [pred \in DOMAIN known |-> known[pred] \cup new'[pred]]
    /\ ev_first' = FALSE
    /\ UNCHANGED <<ev_pc, edb, ev_input, ev_magic, ev_prog, ev_stratum>>

\* step 3: every new_p is empty, the stratum halts
StratumHalt ==
    /\ ev_pc = "stratum"
    /\ ~ev_first
    /\ \A pred \in StratumPreds : new[pred] = {}
    /\ IF ev_stratum < Len(ev_prog)
       THEN /\ ev_stratum' = ev_stratum + 1
            /\ ev_first' = TRUE
            /\ UNCHANGED ev_pc
       ELSE /\ ev_pc' = "done"
            /\ UNCHANGED <<ev_stratum, ev_first>>
    /\ UNCHANGED <<edb, ev_input, ev_magic, ev_prog, known, new>>

\* the steps below leave everything else alone
EvalOnly == UNCHANGED <<qvars, txvars, eavars, ovars, pvars, nvars, svars, dvars, zvars, mvars>>

\* the evaluation of the programs as they are stratified
NextEval ==
    \/ \E x, y \in Nodes : AssertTriple(x, y) /\ EvalOnly
    \/ \E prog \in FreePrograms : EvaluateBegin(prog, FALSE) /\ EvalOnly
    \/ StratumIterate /\ EvalOnly
    \/ StratumHalt /\ EvalOnly

\* the evaluation of the programs after magic_sets_rewrite
NextMagic ==
    \/ \E x, y \in Nodes : AssertTriple(x, y) /\ EvalOnly
    \/ \E prog \in Programs : EvaluateBegin(prog, TRUE) /\ EvalOnly
    \/ StratumIterate /\ EvalOnly
    \/ StratumHalt /\ EvalOnly

\* the steps below leave the transactions alone
QueryOnly == UNCHANGED <<txvars, eavars, ovars, pvars, nvars, svars, evars, dvars, zvars, mvars>>

\* run_query without a view option, while another session issues KillRunning and
\* ListRunning
NextQuery ==
    \/ \E s \in QuerySessions : RunQueryParseFail(s) /\ QueryOnly
    \/ \E s \in QuerySessions : RunQueryStart(s, NoView) /\ QueryOnly
    \/ \E s \in QuerySessions : RunQueryCompileFail(s) /\ QueryOnly
    \/ \E s \in QuerySessions, t \in BOOLEAN : RunQueryNewPoison(s, t) /\ QueryOnly
    \/ \E s \in QuerySessions : RunQueryFetchId(s) /\ QueryOnly
    \/ \E s \in QuerySessions : RunQueryRegister(s) /\ QueryOnly
    \/ \E s \in QuerySessions : EvalIter(s) /\ QueryOnly
    \/ \E s \in QuerySessions : EvalTuple(s) /\ QueryOnly
    \/ \E s \in QuerySessions : EvalNextIter(s) /\ QueryOnly
    \/ \E s \in QuerySessions : EvalFinish(s) /\ QueryOnly
    \/ \E s \in QuerySessions : EvalFail(s) /\ QueryOnly
    \/ \E s \in QuerySessions : OutputFail(s) /\ QueryOnly
    \/ \E s \in QuerySessions : OutputRows(s) /\ QueryOnly
    \/ \E s \in QuerySessions : RunQueryReturn(s) /\ QueryOnly
    \/ \E s \in SysSessions, id \in 0..MaxQueries : KillRunning(s, id) /\ QueryOnly
    \/ \E s \in SysSessions : ListRunning(s) /\ QueryOnly
    \/ \E c \in timers : TimeoutFire(c) /\ QueryOnly

\* run_query with a view option and without a timeout, while another session
\* issues RemoveRelations
NextView ==
    \/ \E s \in QuerySessions, v \in ViewOpts \ {NoView} :
            RunQueryStart(s, v) /\ QueryOnly
    \/ \E s \in QuerySessions : RunQueryCompileFail(s) /\ QueryOnly
    \/ \E s \in QuerySessions : RunQueryNewPoison(s, FALSE) /\ QueryOnly
    \/ \E s \in QuerySessions : RunQueryFetchId(s) /\ QueryOnly
    \/ \E s \in QuerySessions : RunQueryRegister(s) /\ QueryOnly
    \/ \E s \in QuerySessions : EvalIter(s) /\ QueryOnly
    \/ \E s \in QuerySessions : EvalTuple(s) /\ QueryOnly
    \/ \E s \in QuerySessions : EvalFinish(s) /\ QueryOnly
    \/ \E s \in QuerySessions : OutputFail(s) /\ QueryOnly
    \/ \E s \in QuerySessions : OutputView(s) /\ QueryOnly
    \/ \E s \in QuerySessions : RunQueryReturn(s) /\ QueryOnly
    \/ \E s \in SysSessions, n \in ViewNames : RemoveRelations(s, n) /\ QueryOnly

\* a transact that reserves a TxId as transact_write does
transact_Reserving(l) == l + 1

\* transact, lines 163-180: what it leaves in last_tx_id; the SessionTx gets a
\* clone of the Arc and w_tx_id: None
transact(l) == l

\* run_query, line 437: self.transact()?, with the write transactions of other
\* sessions left alone
RunQueryTransact ==
    /\ last_tx_id' = transact(last_tx_id)
    /\ UNCHANGED <<store, tpc, tx, commit_calls, seen, tresult>>
    /\ UNCHANGED <<eavars, ovars, pvars, nvars, svars, evars, dvars, zvars, mvars>>

\* run_query calls that fail before or after they register, with and without
\* a view option, while other sessions start write transactions
NextRun ==
    \/ \E s \in QuerySessions : RunQueryParseFail(s) /\ RunQueryTransact
    \/ \E s \in QuerySessions, v \in ViewOpts : RunQueryStart(s, v) /\ RunQueryTransact
    \/ \E s \in QuerySessions : RunQueryCompileFail(s) /\ QueryOnly
    \/ \E s \in QuerySessions, t \in BOOLEAN : RunQueryNewPoison(s, t) /\ QueryOnly
    \/ \E s \in QuerySessions : RunQueryFetchId(s) /\ QueryOnly
    \/ \E s \in QuerySessions : RunQueryRegister(s) /\ QueryOnly
    \/ \E s \in QuerySessions : EvalIter(s) /\ QueryOnly
    \/ \E s \in QuerySessions : EvalFail(s) /\ QueryOnly
    \/ \E s \in QuerySessions : RunQueryReturn(s) /\ QueryOnly
    \/ \E c \in timers : TimeoutFire(c) /\ QueryOnly
    \/ \E s \in TxSessions : ReserveTxId(s) /\ TxOnly
    \/ \E s \in TxSessions : StartWrite(s) /\ TxOnly
    \/ \E s \in TxSessions : ApplyFail(s) /\ TxOnly

Init ==
    /\ InitQuery /\ InitTx /\ InitScan /\ InitOutput /\ InitParse /\ InitNnf
    /\ InitStratify /\ InitEval /\ InitDnf /\ InitNormalize /\ InitMeta

SpecDnf == Init /\ [][NextDnf]_vars

SpecNormalize == Init /\ [][NextNormalize]_vars

SpecMeta == Init /\ [][NextMeta]_vars

SpecRun == Init /\ [][NextRun]_vars

SpecMagic == Init /\ [][NextMagic]_vars

SpecEval == Init /\ [][NextEval]_vars

\* the thread of the query goes on while it can
SpecEvalFair ==
    SpecEval /\ WF_vars(StratumIterate /\ EvalOnly) /\ WF_vars(StratumHalt /\ EvalOnly)

SpecStratify == Init /\ [][NextStratify]_vars

SpecNnf == Init /\ [][NextNnf]_vars

SpecParse == Init /\ [][NextParse]_vars

SpecOutput == Init /\ [][NextOutput]_vars

SpecScan == Init /\ [][NextScan]_vars

SpecQuery == Init /\ [][NextQuery]_vars

SpecView == Init /\ [][NextView]_vars

\* the steps of a run_query call in progress
RunningStep(s) ==
    \/ RunQueryCompileFail(s)
    \/ \E t \in BOOLEAN : RunQueryNewPoison(s, t)
    \/ RunQueryFetchId(s)
    \/ RunQueryRegister(s)
    \/ EvalIter(s)
    \/ EvalTuple(s)
    \/ EvalNextIter(s)
    \/ EvalFinish(s)
    \/ EvalFail(s)
    \/ OutputFail(s)
    \/ OutputRows(s)
    \/ RunQueryReturn(s)

\* a session's thread, once inside run_query, keeps being scheduled
SpecQueryFair ==
    SpecQuery /\ \A s \in QuerySessions : WF_vars(RunningStep(s) /\ QueryOnly)

SpecTx == Init /\ [][NextTx]_vars

(* ------------------------------- claims -------------------------------- *)

\* session s is inside run_query, between the insert into the registry and the
\* drop of the cleanup guard
Registered(s) == pc[s] \in {"iter", "eval", "output", "drop"}

Live(id) == \E s \in QuerySessions : Registered(s) /\ qid[s] = id

\* C1: every entry of the running-query registry belongs to a run_query call
\* that has inserted it and has not returned yet, whatever path the calls that
\* returned took; and a list_running lists only ids of such calls.
C1_CleanupOnEveryExit ==
    /\ [](\A id \in DOMAIN running_queries : Live(id))
    /\ [][\A s \in SysSessions :
            (result'[s] # result[s] /\ result'[s].msg = "list")
                => \A id \in result'[s].rows : Live(id)]_vars

\* a query was killed and has returned, and a listing shows no query
C1_Witness ==
    /\ \E s \in QuerySessions :
        pc[s] = "idle" /\ result[s] = AdHoc("killed")
    /\ \E s \in QuerySessions :
        pc[s] = "idle" /\ result[s] = AdHoc("output")
    /\ \E y \in SysSessions : result[y] = Listing({})
    /\ queries_count = 2

\* C2: KillRunning(id) returns KILLING and sets the poison flag of exactly the
\* query registered under id when there is one, returns NOT_FOUND and changes
\* no flag otherwise, and never changes the registry.
C2_KillRunning ==
    [][\A s \in SysSessions, id \in 0..MaxQueries :
        KillRunning(s, id) =>
            /\ running_queries' = running_queries
            /\ IF id \in DOMAIN running_queries
               THEN /\ result'[s].msg = "KILLING"
                    /\ \A c \in DOMAIN poison :
                        poison'[c] = (poison[c] \/ c = running_queries[id].poison)
               ELSE /\ result'[s].msg = "NOT_FOUND"
                    /\ poison' = poison]_vars

\* two queries are registered, one was killed and the other was not
C2_Witness ==
    /\ \E y \in SysSessions : result[y] = Status("KILLING")
    /\ timers = {}
    /\ \E i, j \in DOMAIN running_queries :
        /\ poison[running_queries[i].poison]
        /\ ~poison[running_queries[j].poison]

C4_KilledIsTyped ==
    \A s \in Sessions :
        (result[s].tag = "Err" /\ result[s].kind = PoisonCheck(TRUE).kind)
            => result[s].msg = PoisonCheck(TRUE).msg

\* the TxIds present anywhere in the state
KnownTxIds ==
    store \cup {tx[s].w_tx_id : s \in TxSessions} \cup {tresult[s].tx_id : s \in TxSessions}

\* C5: the TxIds of write transactions that exist together are distinct, and
\* each transact_write receives last_tx_id + 1, reserved in one step, which is
\* greater than every TxId handed out before.
C5_TxIdsIncrease ==
    /\ [](\A s, t \in TxSessions :
            (s # t /\ tx[s].w_tx_id # 0) => tx[s].w_tx_id # tx[t].w_tx_id)
    /\ [](\A i \in KnownTxIds : i <= last_tx_id)
    /\ [][/\ last_tx_id' >= last_tx_id
          /\ \A s \in TxSessions :
                (tx'[s].w_tx_id # 0 /\ tx[s].w_tx_id = 0)
                    => /\ tx'[s].w_tx_id = last_tx_id + 1
                       /\ last_tx_id' = tx'[s].w_tx_id]_vars

\* two write transactions are open together after a third has committed
C5_Witness ==
    /\ 1 \in store
    /\ \E s, t \in TxSessions : tx[s].w_tx_id = 2 /\ tx[t].w_tx_id = 3

\* C6: what a read of an open transaction returned differs from what a read
\* returns now only by the transaction's own writes, whatever other sessions
\* have committed since; and a transaction that starts sees every write
\* committed so far.
C6_SnapshotReads ==
    /\ [](\A s \in TxSessions :
            (tx[s].open /\ seen[s].read)
                => /\ seen[s].val \subseteq Visible(s)
                   /\ (Visible(s) \ seen[s].val) \subseteq Buffer(tx[s]))
    /\ [][\A s \in TxSessions :
            (~tx[s].open /\ tx'[s].open) => Visible(s)' = store']_vars

\* a transaction has read, and another session has committed a write since that
\* the transaction does not see
C6_Witness ==
    \E s \in TxSessions :
        /\ tx[s].open
        /\ seen[s].read
        /\ seen[s].val = {1}
        /\ 2 \in store \ Visible(s)

\* C7: the store changes only in the step in which a call commits and returns
\* Ok, and then by that call's writes; a step that returns an error leaves the
\* store as it was; and a call makes at most one commit_tx call.
C7_ErrorLeavesNoWrite ==
    /\ [](\A s \in TxSessions : commit_calls[s] <= 1)
    /\ [][/\ \A s \in TxSessions :
                (tresult'[s] # tresult[s] /\ tresult'[s].tag = "Err")
                    => store' = store
          /\ store' # store
                => \E s \in TxSessions :
                    /\ tpc[s] = "commit"
                    /\ tresult'[s] = TxOk(tx[s].w_tx_id)
                    /\ store' = store \cup {tx[s].w_tx_id}]_vars

\* the second write transaction failed at its commit, which it tried once, and
\* its writes are not in the store
C7_Witness ==
    /\ store = {1}
    /\ last_tx_id = 2
    /\ \E s \in TxSessions :
        tpc[s] = "idle" /\ tresult[s] = TxErr("conflict") /\ commit_calls[s] = 1

\* C8: run_query checks the existence of the view before it compiles: Create
\* on a view that exists, and Put or Retract on a view that does not, return
\* an error at once; in every other case, Rederive always among them, the call
\* goes on to compilation.
C8_ViewPrecondition ==
    [][\A s \in QuerySessions, v \in ViewOpts \ {NoView} :
        RunQueryStart(s, v) =>
            IF \/ (v.op = "Create" /\ v.name \in views)
               \/ (v.op \in {"Put", "Retract"} /\ v.name \notin views)
            THEN /\ pc'[s] = "idle"
                 /\ result'[s].tag = "Err"
                 /\ UNCHANGED <<queries_count, running_queries, poison, timers, views>>
            ELSE /\ pc'[s] = "compile"
                 /\ as_view'[s] = v]_vars

\* a Create was refused because the view existed, and a Rederive of a view that
\* does not exist has gone on to compilation
C8_Witness ==
    /\ views = {}
    /\ \E s, t \in QuerySessions :
        /\ pc[s] = "idle"
        /\ result[s] = AdHoc("view exists but is required not to be")
        /\ pc[t] = "compile"
        /\ as_view[t].op = "Rederive"

Slice(f) == {g \in eav : g.e = f.e /\ g.a = f.a /\ g.v = f.v}

\* f is the entry of its slice with the greatest validity not after vld
LatestAt(f, vld) ==
    /\ f.vld <= vld
    /\ \A g \in Slice(f) : g.vld <= vld => g.vld <= f.vld

\* the facts a read at vld is to return
FactsAt(vld) ==
    {[e |-> f.e, a |-> f.a, v |-> IF f.a = AttrMany THEN f.v ELSE f.val] :
        f \in {g \in eav : /\ LatestAt(g, vld)
                           /\ g.op = "assert"
                           /\ g.a \in {AttrOne, AttrMany}}}

\* the values of attribute a of entity e among the facts a read at vld returns
ValuesAt(vld, e, a) == {t.v : t \in {u \in FactsAt(vld) : u.e = e /\ u.a = a}}

\* C10: when entities_at returns, the facts in its result are those of the live
\* attributes whose entry with the greatest validity not after vld, in the
\* slice of the fact, is an assertion: one object for each entity that has such
\* a fact, the value of its cardinality-one attribute, and each value of its
\* cardinality-many attribute once.
C10_TimeTravel ==
    ea_pc = "done"
        => /\ {ea_result[i]["_id"] : i \in 1..Len(ea_result)}
                = {t.e : t \in FactsAt(ea_vld)}
           /\ \A i, j \in 1..Len(ea_result) :
                i < j => ea_result[i]["_id"] < ea_result[j]["_id"]
           /\ \A i \in 1..Len(ea_result) :
                LET obj == ea_result[i]
                    one == ValuesAt(ea_vld, obj["_id"], AttrOne)
                    many == ValuesAt(ea_vld, obj["_id"], AttrMany)
                IN  /\ "one" \in DOMAIN obj <=> one # {}
                    /\ "one" \in DOMAIN obj => one = {obj["one"]}
                    /\ "many" \in DOMAIN obj <=> many # {}
                    /\ "many" \in DOMAIN obj =>
                        /\ {obj["many"][k] : k \in 1..Len(obj["many"])} = many
                        /\ Len(obj["many"]) = Cardinality(many)

\* asserted at 1000 and retracted at 2000: a read at 1500 returns the fact
C10_Witness ==
    /\ ea_pc = "done"
    /\ ea_vld = 1500
    /\ \E f, g \in eav :
        /\ f.a = AttrOne /\ f.vld = 1000 /\ f.op = "assert"
        /\ g.e = f.e /\ g.a = AttrOne /\ g.vld = 2000 /\ g.op = "retract"
        /\ Len(ea_result) = 1
        /\ ea_result[1]["_id"] = f.e
        /\ ea_result[1]["one"] = f.val

\* row r of the entry relation comes before row q under the sorter dir
Before(r, q, dir) == IF dir = "Dsc" THEN r > q ELSE r < q

\* the position of row r in the fully sorted entry relation
Rank(r, dir) == 1 + Cardinality({q \in derived : Before(q, r, dir)})

\* C11: with a sorter, run_query gives the evaluator no limit and hands on
\* exactly the rows of the fully sorted entry relation at the positions after
\* the first `offset` and up to `limit` of them, in their order; without a
\* sorter it gives the evaluator num_to_take.
C11_SortThenPaginate ==
    o_pc = "done" =>
        IF out_opts.sorters # << >>
        THEN LET off == IF out_opts.offset.some THEN out_opts.offset.val ELSE 0
                 rest == IF Cardinality(derived) > off
                         THEN Cardinality(derived) - off ELSE 0
                 n == IF out_opts.limit.some THEN Min(out_opts.limit.val, rest) ELSE rest
             IN  /\ ~num_to_take.some
                 /\ Len(sorted_iter) = n
                 /\ \A i \in 1..n :
                        /\ sorted_iter[i] \in derived
                        /\ Rank(sorted_iter[i], out_opts.sorters[1]) = off + i
        ELSE num_to_take = NumToTake(out_opts)

\* three rows sorted descending with offset 1 and limit 1 give the middle row,
\* and a query without sorters was given its limit
C11_Witness ==
    /\ o_pc = "done"
    /\ derived = {1, 2, 3}
    /\ out_opts = [sorters |-> <<"Dsc">>, limit |-> Some(1), offset |-> Some(1)]
    /\ sorted_iter = <<2>>

\* the script has a pair of rule r
HasPair(r) == \E i \in 1..Len(p_src) : p_src[i].rule = r

\* parse_query is over: it returned or it panicked
ParseOver == p_result.tag \in {"Ok", "Err", "Panic"}

\* C12: parse_query returns an error for every script that has both an out
\* option and a view option, and no program it returns has both out_spec and
\* as_view.
C12_OutExcludesView ==
    /\ (ParseOver /\ HasPair("out_option") /\ HasPair("view_option"))
            => p_result.tag = "Err"
    /\ p_result.tag = "Ok" => ~(p_opts.out_spec /\ p_opts.as_view # NoView)

\* name n is defined in the script by an ordinary rule at i and by an algo rule
\* at j, or by algo rules at i and at j
Clash(i, j) ==
    /\ p_src[i].rule \in {"rule", "algo_rule"}
    /\ p_src[j].rule = "algo_rule"
    /\ i # j
    /\ p_src[i].name = p_src[j].name

\* C13: parse_query returns an error as soon as it has read both pairs of a
\* name that is defined by a rule and an algo rule or by two algo rules, and in
\* a program it returns every name has its rules in source order or one algo.
C13_RulesOrOneAlgo ==
    /\ \A i, j \in 1..Len(p_src) :
            (Clash(i, j) /\ p_pos >= i /\ p_pos >= j)
                => p_result.tag = "Err" /\ (p_pos = i \/ p_pos = j)
    /\ p_result.tag = "Ok" =>
        \A n \in DOMAIN progs :
            /\ progs[n].rules # << >>
            /\ progs[n].kind = "Algo" => Len(progs[n].rules) = 1
            /\ \A k \in 1..(Len(progs[n].rules) - 1) :
                    progs[n].rules[k].pos < progs[n].rules[k + 1].pos

\* C14: parse_query returns an error at a timeout option that is no positive
\* integer and at a limit or offset that is no non-negative integer, and in a
\* program it returns timeout >= 1, limit >= 0 and offset >= 0.
C14_OptionsValidated ==
    /\ \A i \in 1..Len(p_src) :
            (/\ p_pos = i
             /\ \/ p_src[i].rule = "timeout_option" /\ p_src[i].text = <<"0">>
                \/ /\ p_src[i].rule \in {"limit_option", "offset_option"}
                   /\ p_src[i].text \in {<<"-", "1">>, <<"x">>})
                => p_result.tag = "Err"
    /\ p_result.tag = "Ok" =>
        /\ p_opts.timeout.some => p_opts.timeout.val >= 1
        /\ p_opts.limit.some => p_opts.limit.val >= 0
        /\ p_opts.offset.some => p_opts.offset.val >= 0

\* a Unification occurs in atom a beneath a Negation (under: a itself is
\* beneath one)
RECURSIVE UnificationBeneathNegation(_, _)
UnificationBeneathNegation(a, under) ==
    IF a.tag = "Unification" THEN under
    ELSE \E i \in 1..Len(a.inner) :
            UnificationBeneathNegation(a.inner[i], under \/ a.tag = "Negation")

\* a Unification occurs in atom a beneath an odd number of Negations (odd: the
\* number of Negations above a is odd)
RECURSIVE UnificationNegated(_, _)
UnificationNegated(a, odd) ==
    IF a.tag = "Unification" THEN odd
    ELSE \E i \in 1..Len(a.inner) :
            UnificationNegated(a.inner[i], IF a.tag = "Negation" THEN ~odd ELSE odd)

\* C15, as stated: negation_normal_form returns an error exactly for the atoms
\* in which a Unification occurs beneath a Negation.
C15_ErrorIffUnificationBeneathNegation ==
    n_pc \in {"once", "twice"} => (~nnf_once.ok <=> UnificationBeneathNegation(atom, FALSE))

\* C15, amended: negation_normal_form returns an error exactly for the atoms in
\* which a Unification occurs beneath an odd number of Negations.
C15_ErrorIffUnificationNegated ==
    n_pc \in {"once", "twice"} => (~nnf_once.ok <=> UnificationNegated(atom, FALSE))

\* a Unification beneath two Negations is accepted, and one beneath a Negation
\* of a Conjunction is not
C15_Witness ==
    /\ n_pc = "once"
    /\ \/ /\ atom = Disjunction(<<Negation(Negation(Atom("Unification"))), Atom("Predicate")>>)
          /\ nnf_once = NOk(Disjunction(<<Atom("Unification"), Atom("Predicate")>>))
       \/ /\ atom = Negation(Conjunction(<<Atom("Rule"), Atom("Unification")>>))
          /\ ~nnf_once.ok

\* every Negation in atom a is around an AttrTriple, a Rule or a Relation
RECURSIVE NegationsAroundAtoms(_)
NegationsAroundAtoms(a) ==
    /\ a.tag = "Negation" => a.inner[1].tag \in {"AttrTriple", "Rule", "Relation"}
    /\ \A i \in 1..Len(a.inner) : NegationsAroundAtoms(a.inner[i])

\* C19: in an Ok output of negation_normal_form every Negation is around an
\* AttrTriple, a Rule or a Relation, at any depth.
C19_NegationsOnAtoms ==
    (n_pc \in {"once", "twice"} /\ nnf_once.ok) => NegationsAroundAtoms(nnf_once.val)

\* the Negation of a Disjunction of a negated Conjunction became a Conjunction
\* whose Negations are around atoms
C19_Witness ==
    /\ n_pc = "once"
    /\ atom = Negation(Disjunction(<<
                Conjunction(<<Atom("Rule"), Negation(Atom("AttrTriple"))>>),
                Negation(Atom("Predicate"))>>))
    /\ nnf_once = NOk(Conjunction(<<
                Disjunction(<<Negation(Atom("Rule")), Atom("AttrTriple")>>),
                Atom("Predicate")>>))

\* C20: negation_normal_form of an Ok output is Ok and is that output.
C20_Idempotent ==
    /\ [](n_pc = "twice" => nnf_twice = nnf_once)
    /\ [][(n_pc = "once" /\ nnf_once.ok) => ENABLED NnfTwice]_vars

\* an input that the first call changed, and that the second call left as the
\* first had made it
C20_Witness ==
    /\ n_pc = "twice"
    /\ atom = Negation(Negation(Conjunction(<<Atom("Relation"), Negation(Atom("Predicate"))>>)))
    /\ nnf_once.val = Conjunction(<<Atom("Relation"), PredicateNegate(Atom("Predicate"))>>)
    /\ nnf_twice = nnf_once

\* the sequences of rules without a rule more than StratRules has
StratPaths == UNION {[1..n -> StratRules] : n \in 1..Cardinality(StratRules)}

\* the graph leads from r to s over the rules of w, each an edge after the last
Leads(r, s, w, edges) ==
    /\ w[1] = r
    /\ w[Len(w)] = s
    /\ \A i \in 1..(Len(w) - 1) :
            \E e \in edges : e.from = w[i] /\ e.to = w[i + 1]

\* edge e lies on a cycle of the graph
OnCycle(e, edges) == \E w \in StratPaths : Leads(e.to, e.from, w, edges)

\* stratum i depends on stratum j: a rule of i has a rule of j in its body
StratumDependsOn(i, j) ==
    \E e \in st_edges : e.from \in strata[i] /\ e.to \in strata[j]

\* C16: stratify rejects a program exactly when a negative edge lies on a cycle
\* of the dependency graph; a program with no cycle is accepted; in an accepted
\* program every rule is in one stratum and every stratum comes after the
\* strata it depends on.
C16_Stratify ==
    st_pc = "done" =>
        /\ st_result = "Err" <=> \E e \in st_edges : e.negative /\ OnCycle(e, st_edges)
        /\ (\A e \in st_edges : ~OnCycle(e, st_edges)) => st_result = "Ok"
        /\ st_result = "Ok" =>
            /\ \A r \in StratRules : \E i \in 1..Len(strata) : r \in strata[i]
            /\ \A i, j \in 1..Len(strata) :
                    /\ i # j => strata[i] \cap strata[j] = {}
                    /\ (i # j /\ StratumDependsOn(i, j)) => j < i

\* an accepted program: the entry negates p, and p and q are recursive through
\* each other
C16_Witness ==
    /\ st_pc = "done"
    /\ st_result = "Ok"
    /\ st_edges = {[from |-> "?", to |-> "p", negative |-> TRUE],
                   [from |-> "p", to |-> "q", negative |-> FALSE],
                   [from |-> "q", to |-> "p", negative |-> FALSE]}
    /\ strata = <<{"p", "q"}, {"?"}>>

\* one round of naive bottom-up evaluation: every rule, every subgoal reading
\* the whole of db
NaiveRound(rules, db, triples) ==
    [pred \in DOMAIN db |->
        db[pred] \cup UNION {
            EvalRule(rule, [i \in 1..Len(rule.body) |->
                        IF rule.body[i].pred = Plain("edge") THEN triples
                        ELSE db[rule.body[i].pred]]) :
            rule \in {r \in rules : r.head.pred = pred}}]

\* the least fixpoint of the rules over the triples, from the stores db
RECURSIVE NaiveFixpoint(_, _, _)
NaiveFixpoint(rules, db, triples) ==
    LET next == NaiveRound(rules, db, triples)
    IN  IF next = db THEN db ELSE NaiveFixpoint(rules, next, triples)

LeastFixpoint(prog, seeds, triples) ==
    NaiveFixpoint(RulesOf(prog), InitialStores(prog, seeds), triples)

Chain == {<<1, 2>>, <<2, 3>>, <<3, 4>>}
SixPairs == {<<1, 2>>, <<2, 3>>, <<3, 4>>, <<1, 3>>, <<2, 4>>, <<1, 4>>}

C18_MagicSameEntry ==
    (ev_pc = "done" /\ ev_magic) =>
        known[EntryAdorned(ev_input)] = LeastFixpoint(ev_input, {}, edb)[Plain("?")]

\* the transitive closure with the first argument bound to 1, rewritten and
\* evaluated over the chain
C18_Witness ==
    /\ ev_pc = "done"
    /\ ev_magic
    /\ ev_input = BoundClosure
    /\ edb = Chain
    /\ known[EntryAdorned(ev_input)] = {<<1, 2>>, <<1, 3>>, <<1, 4>>}

\* the truth assignments to the atoms
Truths == [AtomTags -> BOOLEAN]

\* the truth value of atom a under the assignment v; a Predicate negated an odd
\* number of times is the negated predicate
RECURSIVE Holds(_, _)
Holds(a, v) ==
    IF a.tag = "Negation" THEN ~Holds(a.inner[1], v)
    ELSE IF a.tag = "Conjunction" THEN \A i \in 1..Len(a.inner) : Holds(a.inner[i], v)
    ELSE IF a.tag = "Disjunction" THEN \E i \in 1..Len(a.inner) : Holds(a.inner[i], v)
    ELSE v[a.tag] # (a.nots % 2 = 1)

\* atom a holds an atom of the variant tag
RECURSIVE Mentions(_, _)
Mentions(a, tag) ==
    a.tag = tag \/ \E i \in 1..Len(a.inner) : Mentions(a.inner[i], tag)

\* C21: negation_normal_form succeeds on every input without a Unification, and
\* its Ok output has under every truth assignment to the atoms the truth value
\* of the input.
C21_MeaningPreserved ==
    n_pc \in {"once", "twice"} =>
        /\ ~Mentions(atom, "Unification") => nnf_once.ok
        /\ nnf_once.ok => \A v \in Truths : Holds(nnf_once.val, v) = Holds(atom, v)

\* De Morgan and a double negation: not (Rule and not not-Predicate)
C21_Witness ==
    /\ n_pc = "once"
    /\ atom = Negation(Conjunction(<<Atom("Rule"), Negation(Atom("Predicate"))>>))
    /\ nnf_once = NOk(Disjunction(<<Negation(Atom("Rule")), Atom("Predicate")>>))

\* the product of the numbers lens[i], lens[i + 1], ...
RECURSIVE ProductFrom(_, _)
ProductFrom(lens, i) ==
    IF i > Len(lens) THEN 1 ELSE lens[i] * ProductFrom(lens, i + 1)

\* the conjunction of argument i in the n-th choice of one conjunction from
\* each argument, the leftmost argument varying slowest
Choice(n, i, lens) == (((n - 1) \div ProductFrom(lens, i + 1)) % lens[i]) + 1

\* the chosen conjunctions of the arguments i, i + 1, ... one after the other
RECURSIVE ChosenFrom(_, _, _, _)
ChosenFrom(lists, n, i, lens) ==
    IF i > Len(lists) THEN << >>
    ELSE lists[i][Choice(n, i, lens)] \o ChosenFrom(lists, n, i + 1, lens)

\* one conjunction per choice of one conjunction from each list
AllChoices(lists) ==
    LET lens == [i \in 1..Len(lists) |-> Len(lists[i])]
    IN  [n \in 1..ProductFrom(lens, 1) |-> ChosenFrom(lists, n, 1, lens)]

\* the lists i, i + 1, ... one after the other
RECURSIVE ListsFrom(_, _)
ListsFrom(lists, i) ==
    IF i > Len(lists) THEN << >> ELSE lists[i] \o ListsFrom(lists, i + 1)

\* at a and at every atom inside it, the normal form of a Conjunction is the
\* choices from the normal forms of its arguments and the normal form of a
\* Disjunction is their lists one after the other
RECURSIVE DistributesAt(_)
DistributesAt(a) ==
    LET lists == [i \in 1..Len(a.inner) |->
                    do_disjunctive_normal_form(a.inner[i], TRUE).inner]
        form == do_disjunctive_normal_form(a, TRUE)
    IN  /\ (a.tag = "Conjunction" /\ form.tag = "Ok") => form.inner = AllChoices(lists)
        /\ (a.tag = "Disjunction" /\ form.tag = "Ok") => form.inner = ListsFrom(lists, 1)
        /\ a.tag \in {"Conjunction", "Disjunction"} =>
                \A i \in 1..Len(a.inner) : DistributesAt(a.inner[i])

\* some conjunction of the list has every one of its atoms true under v
SomeConjunctionHolds(conjs, v) ==
    \E i \in 1..Len(conjs) :
        \A j \in 1..Len(conjs[i]) :
            v[conjs[i][j].tag] # (conjs[i][j].negated # (conjs[i][j].nots % 2 = 1))

\* C22: in an Ok result of disjunctive_normal_form a Conjunction of k arguments
\* has one conjunction per choice of one conjunction from each argument's
\* normal form, n1 * ... * nk of them, each the chosen conjunctions one after
\* the other in argument order, the leftmost argument varying slowest; a
\* Disjunction has its arguments' conjunctions one after the other; and the
\* result has under every truth assignment the truth value of the input.
C22_Distributes ==
    (n_pc = "dnf" /\ dnf.tag = "Ok") =>
        /\ dnf = do_disjunctive_normal_form(negation_normal_form(atom).val, TRUE)
        /\ DistributesAt(negation_normal_form(atom).val)
        /\ \A v \in Truths : SomeConjunctionHolds(dnf.inner, v) = Holds(atom, v)

\* two Disjunctions of two atoms each under a Conjunction give four
\* conjunctions, the left atom changing last
C22_Witness ==
    /\ n_pc = "dnf"
    /\ atom = Conjunction(<<Disjunction(<<Atom("AttrTriple"), Atom("Predicate")>>),
                            Disjunction(<<Atom("Rule"), Atom("Relation")>>)>>)
    /\ dnf = DOk(<< <<NormalFormAtom(Atom("AttrTriple"), FALSE), NormalFormAtom(Atom("Rule"), FALSE)>>,
                    <<NormalFormAtom(Atom("AttrTriple"), FALSE), NormalFormAtom(Atom("Relation"), FALSE)>>,
                    <<NormalFormAtom(Atom("Predicate"), FALSE), NormalFormAtom(Atom("Rule"), FALSE)>>,
                    <<NormalFormAtom(Atom("Predicate"), FALSE), NormalFormAtom(Atom("Relation"), FALSE)>> >>)

\* C30: disjunctive_normal_form does not panic, neither in the unreachable!()
\* arm nor in the unwrap of the first argument of a Conjunction.
C30_NoPanic == n_pc = "dnf" => dnf.tag # "Panic"

\* the unreachable!() arm is never the panic
DnfUnreachableNotReached ==
    n_pc = "dnf" => dnf # DPanic("internal error: entered unreachable code")

\* the i-th argument of the atom is a constant, or a variable that an earlier
\* argument is too
Replaced(i) ==
    \/ ~nz_atom.args[i].var
    \/ \E j \in 1..(i - 1) : nz_atom.args[j] = nz_atom.args[i]

\* what the symbol put for the i-th argument is bound to
BindingOf(sym, i) ==
    IF nz_atom.args[i].var
    THEN UnifyBinding(sym, nz_atom.args[i].name)
    ELSE UnifyConst(sym, nz_atom.args[i].val)

\* the result is one conjunction that ends with the atom, of the same name and
\* arity and of pairwise distinct symbols, in which every replaced argument is
\* a generated symbol that exactly one Unification before the atom binds, and
\* every other argument is the variable of the input
NormalizedAsStated ==
    /\ nz_result.ok
    /\ Len(nz_result.inner) = 1
    /\ LET conj == nz_result.inner[1]
           last == conj[Len(conj)]
       IN  /\ last.tag = (IF nz_atom.negated THEN "Negated" \o nz_atom.kind ELSE nz_atom.kind)
           /\ last.name = nz_atom.name
           /\ Len(last.args) = Len(nz_atom.args)
           /\ \A i, j \in 1..Len(last.args) : i # j => last.args[i] # last.args[j]
           /\ \A i \in 1..Len(last.args) :
                IF Replaced(i)
                THEN /\ last.args[i].temp > 0
                     /\ Cardinality({k \in 1..(Len(conj) - 1) :
                            conj[k].tag = "Unification"
                                /\ conj[k].args[1] = last.args[i]}) = 1
                     /\ \E k \in 1..(Len(conj) - 1) : conj[k] = BindingOf(last.args[i], i)
                ELSE last.args[i] = Symbol(nz_atom.args[i].name)
           /\ Len(conj) - 1 = Cardinality({i \in 1..Len(last.args) : Replaced(i)})

EntryRulePlaces == {i \in 1..Len(p_src) : p_src[i].rule = "rule" /\ p_src[i].name = "?"}

\* C24: in a program parse_query returns with a view option, the arity of the
\* view is the head length of every rule defining `?`, wherever the view
\* option stands, and a script with a view option and no `?` is not accepted.
C24_ViewArityIsEntryHead ==
    /\ (p_result.tag = "Ok" /\ p_opts.as_view # NoView) =>
            \A i \in EntryRulePlaces : p_opts.arity = p_src[i].head
    /\ (ParseOver /\ HasPair("view_option") /\ EntryRulePlaces = {}) => p_result.tag # "Ok"

\* what remains of C24: the arity is the head length of the first rule
\* defining `?`, whether the view option stands before or after it
ViewArityIsFirstEntryHead ==
    /\ (p_result.tag = "Ok" /\ p_opts.as_view # NoView) =>
            /\ EntryRulePlaces # {}
            /\ \A i \in EntryRulePlaces :
                    (\A j \in EntryRulePlaces : i <= j) => p_opts.arity = p_src[i].head
    /\ (ParseOver /\ p_opts.as_view # NoView /\ EntryRulePlaces = {}) => p_result.tag # "Ok"

\* ?[a] and ?[a, b] followed by a view option: accepted with arity 1
TwoEntryHeads ==
    /\ p_result.tag = "Ok"
    /\ p_opts.as_view # NoView
    /\ p_opts.arity = 1
    /\ \E i \in EntryRulePlaces : p_src[i].head = 2

\* the last call on key k, if there is one
LastCall(k) ==
    LET places == {i \in 1..Len(meta_calls) : meta_calls[i].key = k} IN
    IF places = {} THEN [op |-> "none", key |-> k, val |-> 0]
    ELSE meta_calls[CHOOSE i \in places : \A j \in places : j <= i]

\* the keys that have a put not followed by a remove
Stored == {k \in Paths : LastCall(k).op = "put"}

\* get_meta_kv gave the value of the latest put of the key not followed by a
\* remove, None otherwise
GetGivesLatestPut ==
    meta_out.op = "get" =>
        meta_out.got[1] =
            (IF meta_out.arg \in Stored
             THEN [some |-> TRUE, val |-> LastCall(meta_out.arg).val] ELSE None)

\* meta_range_scan gave stored entries only, in key order
ScanInKeyOrder ==
    meta_out.op = "scan" =>
        /\ \A i \in 1..Len(meta_out.got) :
                /\ meta_out.got[i].key \in Stored
                /\ meta_out.got[i].val = LastCall(meta_out.got[i].key).val
        /\ \A i, j \in 1..Len(meta_out.got) :
                i < j => PathLess(meta_out.got[i].key, meta_out.got[j].key)

\* C25: after any put_meta_kv and remove_meta_kv calls get_meta_kv gives the
\* value of the latest put not followed by a remove, and meta_range_scan gives,
\* in key order, exactly the stored entries whose key begins with the prefix.
C25_MetaKv ==
    /\ GetGivesLatestPut
    /\ ScanInKeyOrder
    /\ meta_out.op = "scan" =>
            {meta_out.got[i].key : i \in 1..Len(meta_out.got)}
                = {k \in Stored : BeginsWith(k, meta_out.arg)}

\* what remains of C25: the scan gives every stored entry whose key is the
\* prefix or comes after it
MetaScanFromPrefix ==
    /\ GetGivesLatestPut
    /\ ScanInKeyOrder
    /\ meta_out.op = "scan" =>
            {meta_out.got[i].key : i \in 1..Len(meta_out.got)}
                = {k \in Stored : k = meta_out.arg \/ PathLess(meta_out.arg, k)}

\* keys ["a"] and ["b"] stored, and the scan of prefix ["a"] gives both
ScanGivesOtherPrefix ==
    /\ meta_out.op = "scan"
    /\ meta_out.arg = <<"a">>
    /\ meta_out.got = <<[key |-> <<"a">>, val |-> 1], [key |-> <<"b">>, val |-> 2]>>

\* session s holds an id drawn from queries_count
HoldsId(s) == pc[s] \in {"insert", "iter", "eval", "output", "drop"}

\* C26: the ids that run_query calls hold are pairwise distinct and below
\* queries_count, the insert into the registry adds an entry under a key that
\* was not there and leaves the others, and the drop of a cleanup guard takes
\* away the entry of its own id and no other.
C26_DistinctIds ==
    /\ [](\A s, t \in QuerySessions :
            (HoldsId(s) /\ HoldsId(t) /\ s # t) => qid[s] # qid[t])
    /\ [](\A s \in QuerySessions : HoldsId(s) => qid[s] < queries_count)
    /\ [][\A s \in QuerySessions :
            (pc[s] = "insert" /\ pc'[s] = "iter") =>
                /\ qid[s] \notin DOMAIN running_queries
                /\ DOMAIN running_queries' = DOMAIN running_queries \cup {qid[s]}
                /\ \A id \in DOMAIN running_queries :
                        running_queries'[id] = running_queries[id]]_vars
    /\ [][\A s \in QuerySessions :
            (pc[s] = "drop" /\ pc'[s] = "idle") =>
                /\ DOMAIN running_queries' = DOMAIN running_queries \ {qid[s]}
                /\ \A id \in DOMAIN running_queries' :
                        running_queries'[id] = running_queries[id]]_vars

\* one query has returned and its guard has left the entry of the other, which
\* is still registered under the second id
C26_Witness ==
    /\ queries_count = 2
    /\ \E s, t \in QuerySessions :
        /\ pc[s] = "idle" /\ result[s] # NoResult
        /\ pc[t] = "iter"
        /\ DOMAIN running_queries = {qid[t]}
        /\ ~poison[cell[t]]

\* the query that poison cell c was made for is inside run_query
Owner(c) == {s \in QuerySessions : pc[s] \notin {"idle", "compile"} /\ cell[s] = c}

\* C27: a poison flag that is true stays true; a flag becomes true only when
\* its own timeout thread fires, when KillRunning finds its query under the id
\* given, or when the guard of its query is dropped; and a timeout thread that
\* fires after its query has returned changes no registry entry and no flag
\* but its own.
C27_PoisonMonotonePrivate ==
    /\ [][\A c \in DOMAIN poison : poison[c] => poison'[c]]_vars
    /\ [][\A c \in DOMAIN poison :
            (~poison[c] /\ poison'[c]) =>
                \/ c \in timers /\ c \notin timers'
                \/ \E y \in SysSessions :
                    /\ result'[y].msg = "KILLING"
                    /\ UNCHANGED <<pc, timers, running_queries, queries_count>>
                    /\ \E id \in DOMAIN running_queries :
                        /\ running_queries[id].poison = c
                        /\ \E s \in Owner(c) : qid[s] = id
                        /\ \A c2 \in DOMAIN poison \ {c} : poison'[c2] = poison[c2]
                \/ \E s \in Owner(c) : pc[s] = "drop" /\ pc'[s] = "idle"]_vars
    /\ [][\A c \in timers :
            (c \notin timers' /\ Owner(c) = {}) =>
                /\ running_queries' = running_queries
                /\ \A c2 \in DOMAIN poison \ {c} : poison'[c2] = poison[c2]]_vars

\* the timeout thread of a query that has returned is still asleep while
\* another query is registered and not poisoned
C27_Witness ==
    \E c \in timers :
        /\ Owner(c) = {}
        /\ poison[c]
        /\ \E s \in QuerySessions, id \in DOMAIN running_queries :
            /\ pc[s] = "eval"
            /\ qid[s] = id
            /\ running_queries[id].poison = cell[s]
            /\ ~poison[cell[s]]

\* a step of the run_query call of session s
RunQueryStep(s) ==
    pc'[s] # pc[s] \/ result'[s] # result[s] \/ pending'[s] # pending[s]

\* C28: a step of run_query that ends or follows parsing, the view check,
\* normalisation, stratification, the magic-set rewrite or compilation without
\* a compiled program leaves the registry, queries_count, the poison cells
\* and the timeout threads as they are, and no step of run_query changes
\* last_tx_id: it changes in the transact_write of another session only.
C28_EarlyFailureLeavesNoTrace ==
    /\ [][\A s \in QuerySessions :
            (/\ pc[s] \in {"idle", "compile"}
             /\ pc'[s] \in {"idle", "compile"}
             /\ RunQueryStep(s)) =>
                UNCHANGED <<running_queries, queries_count, poison, timers>>]_vars
    /\ [][(\E s \in QuerySessions : RunQueryStep(s)) => last_tx_id' = last_tx_id]_vars
    /\ [][last_tx_id' # last_tx_id =>
            \E s \in TxSessions : tpc[s] = "idle" /\ tpc'[s] = "start"]_vars

\* one call failed in parsing, the view check or compilation after another
\* session had reserved a TxId, while a query with a timeout is registered
C28_Witness ==
    /\ last_tx_id = 1
    /\ queries_count = 1
    /\ timers # {}
    /\ \E s, t \in QuerySessions :
        /\ pc[s] = "idle"
        /\ result[s] = AdHoc("compile")
        /\ pc[t] = "iter"
        /\ DOMAIN running_queries = {qid[t]}

\* C29: every iteration of the loop of entities_at seeks a key strictly greater
\* than the key of the entry it has read, and so leaves the iterator on a
\* later entry or on none, whatever the validity of the entry.
C29_ReseekAdvances ==
    [][EntitiesAtStep =>
        /\ KeyLess(KeyOf(it), current')
        /\ it' = NoEntry \/ KeyLess(KeyOf(it), KeyOf(it'))]_vars

\* what remains of C29: the seek advances past every entry whose validity is
\* not Validity::MIN, and stays on an entry whose validity is
ReseekAdvancesAboveMin ==
    [][EntitiesAtStep =>
        IF it.vld > VldMin
        THEN /\ KeyLess(KeyOf(it), current')
             /\ it' = NoEntry \/ KeyLess(KeyOf(it), KeyOf(it'))
        ELSE current' = KeyOf(it) /\ it' = it]_vars

\* the loop has read an entry of validity Validity::MIN, has taken its value
\* and stands on the same entry again
ScanStuckAtMinValidity ==
    /\ ea_pc = "loop"
    /\ it # NoEntry
    /\ it.vld = VldMin
    /\ current = KeyOf(it)
    /\ it.a = AttrMany /\ it.op = "assert"
    /\ it.e \in DOMAIN collected
    /\ Len(collected[it.e]["many"]) = 2

====
